---- MODULE Spec2Model ----
(***************************************************************************)
(* A model of the news risk pipeline of backend/: the Evaluator-Optimizer  *)
(* loop (evaluator_optimizer.py), the queued task process_news_article,    *)
(* the periodic scan auto_process_news and the daily recompute             *)
(* (news_risk_analyzer.py).                                                *)
(*                                                                         *)
(* Specifications:                                                         *)
(*   SpecOpt      one call of optimize_risk_analysis, one LLM call a step  *)
(*   FairOpt      SpecOpt with the loop's steps taken (the calls are       *)
(*                blocking calls of one thread: each returns or raises)    *)
(*   Spec         the queue, one worker, database statements that can fail *)
(*   SpecWorkers  the queue, two workers, a reliable database              *)
(*   FairScan     the periodic scan and one worker, fairly scheduled       *)
(***************************************************************************)
EXTENDS Integers, Sequences, FiniteSets, TLC

\* ------------------------------------------------------------------------
\* Bounds of the model
\* ------------------------------------------------------------------------

\* Largest max_iterations a call of optimize_risk_analysis is started with.
MaxIterations == 3

\* ------------------------------------------------------------------------
\* Inputs: what the LLM can answer
\* ------------------------------------------------------------------------

\* sentiment_score of a validated analysis (validate_risk_analysis clamps it
\* to [-1, 1]); -1, 0, 1 stand for a negative, the zero and a positive score.
Sentiments == {-1, 0, 1}

\* A validated risk analysis, reduced to the field the pipeline branches on.
\* sentiment_score is optional: validation neither requires nor defaults it.
Analyses == {[sentiment_score |-> s] : s \in Sentiments} \cup {[primary_risk_category |-> "market_risk"]}

\* The <response> section of a generator reply: absent or empty, not JSON,
\* JSON that validate_risk_analysis rejects, or JSON that it returns.
Responses ==
    {[form |-> "absent"], [form |-> "not_json"], [form |-> "invalid"]}
        \cup {[form |-> "analysis", analysis |-> a] : a \in Analyses}

\* A generator reply: llm_call raises, or returns text with or without a
\* non-empty <thoughts> section and with one of the <response> sections.
GenReplies ==
    {[kind |-> "error"]}
        \cup {[kind |-> "text", thoughts |-> t, response |-> r] : t \in BOOLEAN, r \in Responses}

\* The feedback texts of the evaluator.
Feedbacks == {"f1", "f2"}

\* The <evaluation> section after strip(): "" stands for an absent or empty
\* section, "UNCLEAR" for any text other than the three verdicts.
Evaluations == {"", "PASS", "NEEDS_IMPROVEMENT", "FAIL", "UNCLEAR"}

\* An evaluator reply: llm_call raises, or returns text with the two sections
\* ("" is an absent or empty section).
EvalReplies ==
    {[kind |-> "error"]}
        \cup {[kind |-> "text", evaluation |-> e, feedback |-> f] : e \in Evaluations, f \in Feedbacks \cup {""}}

\* ------------------------------------------------------------------------
\* evaluator_optimizer.py
\* ------------------------------------------------------------------------

\* generate_risk_analysis from the llm_call on: the call raises, a section is
\* missing, the JSON does not parse, validation raises, or (thoughts, analysis).
generate_risk_analysis(reply) ==
    IF reply.kind = "error"
    THEN [raised |-> TRUE, error |-> "llm_call"]
    ELSE IF ~reply.thoughts \/ reply.response.form = "absent"
    THEN [raised |-> TRUE, error |-> "generator_format"]
    ELSE IF reply.response.form = "not_json"
    THEN [raised |-> TRUE, error |-> "parse_json"]
    ELSE IF reply.response.form = "invalid"
    THEN [raised |-> TRUE, error |-> "validation"]
    ELSE [raised |-> FALSE, risk_analysis |-> reply.response.analysis]

\* evaluate_risk_analysis from the llm_call on.
evaluate_risk_analysis(reply) ==
    IF reply.kind = "error"
    THEN [raised |-> TRUE, error |-> "llm_call"]
    ELSE IF reply.evaluation = "" \/ reply.feedback = ""
    THEN [raised |-> TRUE, error |-> "evaluator_format"]
    ELSE [raised |-> FALSE, evaluation |-> reply.evaluation, feedback |-> reply.feedback]

\* A mutant of BuildFeedbackContext: only the latest feedback is carried.
BuildFeedbackContextLatest(previous_feedback) ==
    [i \in 1..(IF previous_feedback = <<>> THEN 0 ELSE 1) |->
        [attempt |-> 1, feedback |-> previous_feedback[Len(previous_feedback)]]]

\* feedback_context of an iteration: empty without previous feedback, else one
\* "Attempt i feedback: prev" line per entry of previous_feedback, in order.
BuildFeedbackContext(previous_feedback) ==
    [i \in 1..Len(previous_feedback) |-> [attempt |-> i, feedback |-> previous_feedback[i]]]

\* A mutant of InRange: the loop bound is off by one.
InRangeOffByOne(i, n) == i >= 1 /\ i <= n + 1

\* iteration in range(1, max_iterations + 1)
InRange(i, n) == i >= 1 /\ i <= n

\* A mutant of Passed: a PASS is taken for a verdict that asks for more.
PassedNever(evaluation) == FALSE

\* evaluation == "PASS"
Passed(evaluation) == evaluation = "PASS"

\* A mutant of AcceptOnFinal: any verdict is accepted on the final iteration.
AcceptAnyOnFinal(evaluation, iteration, n) == iteration = n

\* A mutant of AcceptOnFinal: NEEDS_IMPROVEMENT is accepted on any iteration.
AcceptAlways(evaluation, iteration, n) == evaluation = "NEEDS_IMPROVEMENT"

\* evaluation == "NEEDS_IMPROVEMENT" and iteration == self.max_iterations
AcceptOnFinal(evaluation, iteration, n) == evaluation = "NEEDS_IMPROVEMENT" /\ iteration = n

\* A mutant of FailOnFinal: a FAIL raises on any iteration.
FailAlways(evaluation, iteration, n) == evaluation = "FAIL"

\* evaluation == "FAIL" and iteration == self.max_iterations
FailOnFinal(evaluation, iteration, n) == evaluation = "FAIL" /\ iteration = n

\* The analysis of a record that has none yet.
NoAnalysis == [form |-> "none"]

\* optimize_risk_analysis up to the loop: the locals of a call with
\* max_iterations = n. state is where the call stands: GENERATE and EVALUATE
\* before the two LLM calls of an iteration, DONE after a return, FAILED after
\* a raise. gen_calls and eval_calls count the calls made so far.
OptStart(n) ==
    [max_iterations |-> n,
     iteration |-> 1,
     state |-> IF InRange(1, n) THEN "GENERATE" ELSE "FAILED",
     error |-> IF InRange(1, n) THEN "none" ELSE "incomplete",
     previous_feedback |-> <<>>,
     feedback_context |-> <<>>,
     iteration_history |-> <<>>,
     risk_analysis |-> NoAnalysis,
     gen_calls |-> 0,
     eval_calls |-> 0]

\* The first half of an iteration: build the feedback context and generate.
GenerateStep(o, reply) ==
    LET ctx == BuildFeedbackContext(o.previous_feedback)
        g == generate_risk_analysis(reply)
    IN  IF g.raised
        THEN [o EXCEPT !.state = "FAILED", !.error = g.error,
                       !.feedback_context = ctx, !.gen_calls = @ + 1]
        ELSE [o EXCEPT !.state = "EVALUATE", !.risk_analysis = g.risk_analysis,
                       !.feedback_context = ctx, !.gen_calls = @ + 1]

\* The second half of an iteration: evaluate, record the attempt, then return,
\* raise or go on to the next iteration.
EvaluateStep(o, reply) ==
    LET e == evaluate_risk_analysis(reply)
        n == o.max_iterations
    IN  IF e.raised
        THEN [o EXCEPT !.state = "FAILED", !.error = e.error, !.eval_calls = @ + 1]
        ELSE LET attempt_record == [iteration |-> o.iteration,
                                    risk_analysis |-> o.risk_analysis,
                                    evaluation |-> e.evaluation,
                                    feedback |-> e.feedback]
                 p == [o EXCEPT !.iteration_history = Append(@, attempt_record),
                                !.eval_calls = @ + 1]
             IN  IF Passed(e.evaluation)
                 THEN [p EXCEPT !.state = "DONE"]
                 ELSE IF AcceptOnFinal(e.evaluation, o.iteration, n)
                 THEN [p EXCEPT !.state = "DONE"]
                 ELSE IF FailOnFinal(e.evaluation, o.iteration, n)
                 THEN [p EXCEPT !.state = "FAILED", !.error = "final_fail"]
                 ELSE IF InRange(o.iteration + 1, n)
                 THEN [p EXCEPT !.state = "GENERATE", !.iteration = @ + 1,
                                !.previous_feedback = Append(@, e.feedback)]
                 ELSE [p EXCEPT !.state = "FAILED", !.error = "incomplete",
                                !.previous_feedback = Append(@, e.feedback)]

\* process_news_with_evaluator_optimizer after the loop: if it returned,
\* attach _optimization_meta; a raise of the loop passes through.
OptimizerResult(o) ==
    IF o.state = "DONE"
    THEN [raised |-> FALSE,
          risk_analysis |-> o.risk_analysis,
          iterations_used |-> Len(o.iteration_history),
          final_evaluation |-> o.iteration_history[Len(o.iteration_history)].evaluation,
          gen_calls |-> o.gen_calls,
          eval_calls |-> o.eval_calls]
    ELSE [raised |-> TRUE,
          error |-> o.error,
          gen_calls |-> o.gen_calls,
          eval_calls |-> o.eval_calls]

\* One complete run of the loop from the record o: the results it can end
\* with, over every reply of the LLM to every call.
RECURSIVE OptRuns(_)
OptRuns(o) ==
    IF o.state = "GENERATE"
    THEN UNION {OptRuns(GenerateStep(o, reply)) : reply \in GenReplies}
    ELSE IF o.state = "EVALUATE"
    THEN UNION {OptRuns(EvaluateStep(o, reply)) : reply \in EvalReplies}
    ELSE {OptimizerResult(o)}

process_news_with_evaluator_optimizer(max_iterations) == OptRuns(OptStart(max_iterations))

\* ------------------------------------------------------------------------
\* news_risk_analyzer.py: configuration
\* ------------------------------------------------------------------------

\* Config.MAX_RETRIES, read from the environment (default 3).
MAX_RETRIES == 1

\* Config.MAX_OPTIMIZATION_ITERATIONS
MAX_OPTIMIZATION_ITERATIONS == 3

\* The batch of one scan: LIMIT 10 in auto_process_news, scaled down.
ScanLimit == 1

\* A mutant of TaskRetries: one retry too many.
TaskRetriesOffByOne == MAX_RETRIES + 1

\* @huey.task(retries=Config.MAX_RETRIES, ...): the retry budget of a new task.
TaskRetries == MAX_RETRIES

\* The results process_news_article can get from the analysis of one article
\* (Config.MAX_OPTIMIZATION_ITERATIONS iterations at most).
AnalysisResults == process_news_with_evaluator_optimizer(MAX_OPTIMIZATION_ITERATIONS)

\* ------------------------------------------------------------------------
\* Bounds of the pipeline
\* ------------------------------------------------------------------------

\* The RawArticles of Spec and SpecWorkers.
NumArticles == 1

\* The workers of the consumer (HUEY_WORKERS, default 2).
Workers == {"w1", "w2"}

\* ------------------------------------------------------------------------
\* State
\* ------------------------------------------------------------------------

VARIABLES
    opt,                \* the locals of one call of optimize_risk_analysis
    raw_news_data,      \* news_id -> processed (0 or 1)
    news_articles,      \* the rows of news_articles, in id order
    risk_calculations,  \* the stored daily aggregate (0: no row)
    sse_events,         \* the rows of sse_events, in id order
    queue,              \* the tasks ready to run, oldest first
    schedule,           \* the tasks waiting for their retry delay, oldest first
    failed,             \* the tasks that used up their retries
    workers,            \* worker -> the locals of the task it runs
    db_faults,          \* whether database statements can fail
    subscribers,        \* subscriber -> the locals of its dashboard_event_generator
    change_detection_cache, \* _change_detection_cache: logical stream -> last hash
    events_since,       \* the last call of get_events_since and what it returned
    written,            \* event_id -> what its producer was given to publish
    risk_db_pool,       \* the DatabaseConnectionPool of the risk database
    knowledge_db_pool,  \* the DatabaseConnectionPool of the knowledge database
    callers,            \* thread -> the connection its with-block holds
    call                \* the last call of a pure function and what it returned

pipeline == <<raw_news_data, news_articles, risk_calculations, sse_events,
              queue, schedule, failed, workers, db_faults>>

stream == <<subscribers, change_detection_cache, events_since, written>>

library == <<risk_db_pool, knowledge_db_pool, callers, call>>

vars == <<opt, raw_news_data, news_articles, risk_calculations, sse_events,
          queue, schedule, failed, workers, db_faults,
          subscribers, change_detection_cache, events_since, written,
          risk_db_pool, knowledge_db_pool, callers, call>>

\* A worker that runs no task.
Idle ==
    [pc |-> "idle", task |-> [news_id |-> 0, retries |-> 0, attempts |-> 0],
     sentiment_score |-> 0, risk_db_id |-> 0, latest_news |-> 0,
     inserted |-> FALSE, marked |-> FALSE, calc_ok |-> FALSE, emit_ok |-> FALSE,
     result |-> "none", error |-> "none", gen_calls |-> 0, eval_calls |-> 0]

\* The outcomes of one database statement: it succeeds, or (with db_faults) it
\* raises: a lock timeout, an exhausted pool, a missing table.
DbOutcomes == IF db_faults THEN {TRUE, FALSE} ELSE {TRUE}

PipelineInit(articles, ws, faults) ==
    /\ raw_news_data = [a \in articles |-> 0]
    /\ news_articles = <<>>
    /\ risk_calculations = 0
    /\ sse_events = <<>>
    /\ queue = <<>>
    /\ schedule = <<>>
    /\ failed = {}
    /\ workers = [w \in ws |-> Idle]
    /\ db_faults = faults

\* _change_detection_cache as the module is loaded: None for every stream.
NoHash == [type |-> "None"]

\* No call of get_events_since yet.
NoCall == [last_event_id |-> 0, limit |-> 0, events |-> <<>>, called |-> FALSE]

\* No subscriber connected, nothing offered to the change detection, no query.
StreamInit ==
    /\ subscribers = [s \in {} |-> 0]
    /\ change_detection_cache = [update_type \in {"dashboard_summary", "risk_breakdown",
                                                  "news_feed", "alerts"} |-> NoHash]
    /\ events_since = NoCall
    /\ written = <<>>

\* DatabaseConnectionPool.__init__: no connection yet. closed are the
\* connections closed so far, created the number of connections made.
NewPool == [connections |-> <<>>, in_use |-> {}, closed |-> {}, created |-> 0]

\* No pure function called yet.
NoFunction == [function |-> "none"]

\* The pool as the module is loaded, no caller, no call.
LibraryInit ==
    /\ risk_db_pool = NewPool
    /\ knowledge_db_pool = NewPool
    /\ callers = [t \in {} |-> 0]
    /\ call = NoFunction

\* ------------------------------------------------------------------------
\* SpecOpt: one call of optimize_risk_analysis
\* ------------------------------------------------------------------------

InitOpt ==
    /\ \E n \in 0..MaxIterations : opt = OptStart(n)
    /\ PipelineInit({}, {}, FALSE)
    /\ StreamInit
    /\ LibraryInit

\* The generator's LLM call of the current iteration returns or raises.
OptGenerate ==
    /\ opt.state = "GENERATE"
    /\ \E reply \in GenReplies : opt' = GenerateStep(opt, reply)
    /\ UNCHANGED <<pipeline, stream, library>>

\* The evaluator's LLM call of the current iteration returns or raises.
OptEvaluate ==
    /\ opt.state = "EVALUATE"
    /\ \E reply \in EvalReplies : opt' = EvaluateStep(opt, reply)
    /\ UNCHANGED <<pipeline, stream, library>>

NextOpt == OptGenerate \/ OptEvaluate

SpecOpt == InitOpt /\ [][NextOpt]_vars

FairOpt == SpecOpt /\ WF_vars(NextOpt)

\* ------------------------------------------------------------------------
\* news_risk_analyzer.py: producers
\* ------------------------------------------------------------------------

\* SELECT ... WHERE processed = 0
\* The same selection without its WHERE clause.
UnprocessedOrNot == DOMAIN raw_news_data

Unprocessed == {a \in DOMAIN raw_news_data : raw_news_data[a] = 0}

\* ORDER BY creation_timestamp DESC: an article's news_id stands for its
\* creation_timestamp too (a larger id is a newer article).
RECURSIVE NewestFirst(_)
NewestFirst(S) ==
    IF S = {}
    THEN <<>>
    ELSE LET newest == CHOOSE x \in S : \A y \in S : y <= x
         IN  <<newest>> \o NewestFirst(S \ {newest})

\* LIMIT k
Limit(rows, k) == SubSeq(rows, 1, IF Len(rows) < k THEN Len(rows) ELSE k)

\* process_news_article(news_data) called by a producer: a new task.
NewTask(a) == [news_id |-> a, retries |-> TaskRetries, attempts |-> 0]

\* The producers' loop: one task per selected row, in the order of the rows.
\* Scheduling of the model: a producer runs when no task waits (the consumer
\* keeps up with the producers); the tasks in the workers' hands do not count,
\* so an article whose task is running is queued again.
Enqueue(rows) ==
    /\ queue = <<>>
    /\ schedule = <<>>
    /\ queue' = queue \o [i \in 1..Len(rows) |-> NewTask(rows[i])]

\* The periodic task, every minute: queue the newest unprocessed articles.
auto_process_news ==
    /\ Unprocessed # {}
    /\ Enqueue(Limit(NewestFirst(Unprocessed), ScanLimit))
    /\ UNCHANGED <<opt, stream, library, raw_news_data, news_articles, risk_calculations, sse_events,
                   schedule, failed, workers, db_faults>>

\* The publisher: queue every unprocessed article.
publish_all_news ==
    /\ Unprocessed # {}
    /\ Enqueue(NewestFirst(Unprocessed))
    /\ UNCHANGED <<opt, stream, library, raw_news_data, news_articles, risk_calculations, sse_events,
                   schedule, failed, workers, db_faults>>

\* ------------------------------------------------------------------------
\* The task queue (huey): a worker takes the oldest task, runs the handler,
\* and on an exception reschedules the task while it has retries left
\* ------------------------------------------------------------------------

Dequeue(w) ==
    /\ workers[w].pc = "idle"
    /\ queue # <<>>
    /\ workers' = [workers EXCEPT ![w] =
                      [Idle EXCEPT !.pc = "analyse",
                                   !.task = [Head(queue) EXCEPT !.attempts = @ + 1]]]
    /\ queue' = Tail(queue)
    /\ UNCHANGED <<opt, stream, library, raw_news_data, news_articles, risk_calculations, sse_events,
                   schedule, failed, db_faults>>

\* The handler returned: the task is done.
HueyComplete(w) ==
    /\ workers[w].pc = "returned"
    /\ workers' = [workers EXCEPT ![w] = Idle]
    /\ UNCHANGED <<opt, stream, library, raw_news_data, news_articles, risk_calculations, sse_events,
                   queue, schedule, failed, db_faults>>

\* The handler raised: one retry less and wait for the retry delay, or, with
\* no retry left, the task is dead.
HueyOnError(w) ==
    LET task == workers[w].task
    IN  /\ workers[w].pc = "raised"
        /\ workers' = [workers EXCEPT ![w] = Idle]
        /\ IF task.retries > 0
           THEN /\ schedule' = Append(schedule, [task EXCEPT !.retries = @ - 1])
                /\ failed' = failed
           ELSE /\ failed' = failed \cup {task}
                /\ schedule' = schedule
        /\ UNCHANGED <<opt, stream, library, raw_news_data, news_articles, risk_calculations, sse_events,
                       queue, db_faults>>

\* The retry delay of the oldest scheduled task has passed.
RetryDue ==
    /\ schedule # <<>>
    /\ queue' = Append(queue, Head(schedule))
    /\ schedule' = Tail(schedule)
    /\ UNCHANGED <<opt, stream, library, raw_news_data, news_articles, risk_calculations, sse_events,
                   failed, workers, db_faults>>

\* ------------------------------------------------------------------------
\* sse_event_system.py: the event log. A row of sse_events is
\* [event_id, event_type, event_data, priority, processed]; event_data is the
\* JSON text of the row, modelled as the object it encodes (a record).
\* ------------------------------------------------------------------------

\* EVENT_MAPPING.get(event_type, 'dashboard_refresh')
EVENT_MAPPING(event_type) ==
    CASE event_type \in {"news_update", "news_feed_update"} -> "news_update"
      [] event_type \in {"risk_update", "risk_score_update", "risk_breakdown_update",
                         "risk_calculation_update"} -> "risk_change"
      [] event_type \in {"alerts_update", "alert_new", "error"} -> "alert_new"
      [] event_type \in {"dashboard_summary_update", "connection"} -> "dashboard_refresh"
      [] OTHER -> "dashboard_refresh"

\* EVENT_PRIORITIES.get(event_type, 50)
EVENT_PRIORITIES(event_type) ==
    CASE event_type = "error" -> 90
      [] event_type = "alert_new" -> 85
      [] event_type = "risk_update" -> 80
      [] event_type = "risk_score_update" -> 75
      [] event_type = "news_update" -> 70
      [] event_type = "news_feed_update" -> 65
      [] event_type = "dashboard_summary_update" -> 60
      [] event_type = "risk_breakdown_update" -> 55
      [] event_type = "alerts_update" -> 35
      [] event_type = "connection" -> 30
      [] OTHER -> 50

\* The priority column of a row whose INSERT names no priority: NULL, which
\* the ORDER BY of get_events_since sorts below every number.
NoPriority == 0

\* The id the next INSERT gets.
NextEventId(log) == IF log = <<>> THEN 1 ELSE log[Len(log)].event_id + 1

\* dict.get(key, default) on a decoded JSON object.
JsonGet(object, key, default) == IF key \in DOMAIN object THEN object[key] ELSE default

\* The empty JSON object {}.
EmptyObject == [k \in {} |-> 0]

\* SSEEventManager.emit_event, its INSERT succeeding: the row is stored under
\* the envelope type, with the semantic type and the payload wrapped in
\* event_data. priority is {} for None and {p} for the value p.
emit_event(log, event_type, event_data, priority) ==
    LET db_event_type == EVENT_MAPPING(event_type)
        prio == IF priority = {} THEN EVENT_PRIORITIES(event_type)
                                 ELSE CHOOSE p \in priority : TRUE
        enriched_payload == [original_event_type |-> event_type,
                             event_data |-> event_data,
                             priority |-> prio,
                             envelope_type |-> db_event_type]
    IN  Append(log, [event_id |-> NextEventId(log),
                     event_type |-> db_event_type,
                     event_data |-> enriched_payload,
                     priority |-> prio,
                     processed |-> 0])

\* INSERT INTO sse_events (event_type, event_data, created_at) of
\* news_risk_analyzer.py: the payload itself is the event_data, and no
\* priority is written.
InsertRawEvent(log, event_type, payload) ==
    Append(log, [event_id |-> NextEventId(log),
                 event_type |-> event_type,
                 event_data |-> payload,
                 priority |-> NoPriority,
                 processed |-> 0])

\* The payload of the news_update row of process_news_article.
NewsUpdatePayload(news_id) == [news_id |-> news_id, action |-> "news_processed"]

\* The payload of the risk_change row of calculate_daily_risk_score.
RiskChangePayload(score) == [overall_risk_score |-> score, action |-> "risk_calculation_updated"]

\* A mutant of Precedes: the id alone orders the rows.
PrecedesById(a, b) == a.event_id < b.event_id

\* ORDER BY priority DESC, event_id ASC: row a comes before row b.
Precedes(a, b) ==
    \/ a.priority > b.priority
    \/ a.priority = b.priority /\ a.event_id < b.event_id

\* The rows of the set given, as the ORDER BY lists them.
OrderRows(rows) ==
    [k \in 1..Cardinality(rows) |->
        CHOOSE r \in rows : Cardinality({q \in rows : Precedes(q, r)}) = k - 1]

\* The first n elements of a sequence (LIMIT n).
Take(s, n) == SubSeq(s, 1, IF n < Len(s) THEN n ELSE Len(s))

\* What get_events_since makes of one row: the envelope unwrapped.
Unwrap(event) ==
    LET payload == event.event_data
    IN  [event_id |-> event.event_id,
         envelope_type |-> event.event_type,
         original_event_type |-> JsonGet(payload, "original_event_type", event.event_type),
         event_data |-> JsonGet(payload, "event_data", EmptyObject),
         priority |-> event.priority]

\* SSEEventManager.get_events_since(last_event_id, limit):
\* SELECT ... WHERE event_id > ? ORDER BY priority DESC, event_id ASC LIMIT ?
\* (every row of the model holds valid JSON, so no row is dropped as
\* undecodable).
get_events_since(log, last_event_id, limit) ==
    LET rows == {log[i] : i \in {j \in 1..Len(log) : log[j].event_id > last_event_id}}
        events == Take(OrderRows(rows), limit)
    IN  [k \in 1..Len(events) |-> Unwrap(events[k])]

\* SSEEventManager.mark_events_processed(event_ids):
\* UPDATE sse_events SET processed = 1 WHERE event_id IN (...)
mark_events_processed(log, event_ids) ==
    [i \in 1..Len(log) |->
        IF log[i].event_id \in event_ids THEN [log[i] EXCEPT !.processed = 1] ELSE log[i]]

\* ------------------------------------------------------------------------
\* news_risk_analyzer.py: process_news_article, one blocking call per step
\* ------------------------------------------------------------------------

\* A mutant of Propagates: a failed insert is swallowed like the later steps.
PropagatesNotInsert(step) == step \in {"analysis", "duplicate_check"}

\* A mutant of Propagates: a failed daily recompute fails the task.
PropagatesCalc(step) == step \in {"analysis", "duplicate_check", "insert", "calc"}

\* The try/except structure of the handler: the steps whose exception reaches
\* the outer "except Exception: raise"; the other steps (mark_skip,
\* mark_duplicate, calc, emit, mark_final) have their own try/except that
\* prints a warning and goes on.
Propagates(step) == step \in {"analysis", "duplicate_check", "insert"}

\* The step raised err: out of the handler, or on to the step after it.
OnError(wk, step, err, next_pc) ==
    IF Propagates(step)
    THEN [wk EXCEPT !.pc = "raised", !.error = err]
    ELSE [wk EXCEPT !.pc = next_pc, !.error = err]

\* risk_analysis.get('sentiment_score', 0.0)
SentimentOf(risk_analysis) ==
    IF "sentiment_score" \in DOMAIN risk_analysis THEN risk_analysis.sentiment_score ELSE 0

\* A mutant of PositiveSentiment: a zero sentiment is skipped too.
NonNegativeSentiment(sentiment_score) == sentiment_score >= 0

\* if sentiment_score > 0
PositiveSentiment(sentiment_score) == sentiment_score > 0

\* The (headline, source_name, published_date) of a RawArticle; every
\* RawArticle of the model has its own.
KeyOf(a) == a

\* A mutant of ExistingNews: the duplicate check never finds a row.
ExistingNewsNever(rows, a) == FALSE

\* SELECT id FROM news_articles WHERE headline = ? AND source_name = ? AND
\* published_date = ? finds a row.
ExistingNews(rows, a) == \E i \in 1..Len(rows) : rows[i].key = KeyOf(a)

\* UPDATE raw_news_data SET processed = 1 WHERE news_id = ?
MarkUpdate(rows, a) == [b \in DOMAIN rows |-> IF b = a THEN 1 ELSE rows[b]]

\* STEP 1 to 1.6: the analysis (the whole Evaluator-Optimizer loop and the
\* theme classification, which touch no table) and the sentiment gate.
Analyse(w) ==
    LET wk == workers[w]
    IN  /\ wk.pc = "analyse"
        /\ \E res \in AnalysisResults :
              workers' = [workers EXCEPT ![w] =
                  IF res.raised
                  THEN [OnError(wk, "analysis", res.error, "analyse")
                            EXCEPT !.gen_calls = res.gen_calls, !.eval_calls = res.eval_calls]
                  ELSE LET sentiment_score == SentimentOf(res.risk_analysis)
                       IN  [wk EXCEPT !.sentiment_score = sentiment_score,
                                      !.pc = IF PositiveSentiment(sentiment_score)
                                             THEN "mark_skip"
                                             ELSE "duplicate_check"]]
        /\ UNCHANGED <<opt, stream, library, raw_news_data, news_articles, risk_calculations, sse_events,
                       queue, schedule, failed, db_faults>>

\* The three places that mark the source processed and return: after a
\* positive sentiment, after a duplicate, and as the final step.
MarkAndReturn(w, at, result) ==
    LET wk == workers[w]
    IN  /\ wk.pc = at
        /\ \E ok \in DbOutcomes :
              IF ok
              THEN /\ raw_news_data' = MarkUpdate(raw_news_data, wk.task.news_id)
                   /\ workers' = [workers EXCEPT ![w] =
                          [wk EXCEPT !.pc = "returned", !.result = result, !.marked = TRUE]]
              ELSE /\ raw_news_data' = raw_news_data
                   /\ workers' = [workers EXCEPT ![w] =
                          [OnError(wk, at, at, "returned") EXCEPT !.result = result]]
        /\ UNCHANGED <<opt, stream, library, news_articles, risk_calculations, sse_events,
                       queue, schedule, failed, db_faults>>

MarkSkipped(w) == MarkAndReturn(w, "mark_skip", "skipped")

\* STEP 2: the duplicate check.
DuplicateCheck(w) ==
    LET wk == workers[w]
    IN  /\ wk.pc = "duplicate_check"
        /\ \E ok \in DbOutcomes :
              workers' = [workers EXCEPT ![w] =
                  IF ~ok
                  THEN OnError(wk, "duplicate_check", "duplicate_check", "insert")
                  ELSE IF ExistingNews(news_articles, wk.task.news_id)
                  THEN [wk EXCEPT !.pc = "mark_duplicate"]
                  ELSE [wk EXCEPT !.pc = "insert"]]
        /\ UNCHANGED <<opt, stream, library, raw_news_data, news_articles, risk_calculations, sse_events,
                       queue, schedule, failed, db_faults>>

MarkDuplicate(w) == MarkAndReturn(w, "mark_duplicate", "duplicate")

\* STEP 3: the insert and its commit, as one statement: the row is stored, or
\* the statement raises and no row is stored.
InsertArticle(w) ==
    LET wk == workers[w]
    IN  /\ wk.pc = "insert"
        /\ \E ok \in DbOutcomes :
              IF ok
              THEN /\ news_articles' = Append(news_articles,
                          [key |-> KeyOf(wk.task.news_id), sentiment_score |-> wk.sentiment_score])
                   /\ workers' = [workers EXCEPT ![w] =
                          [wk EXCEPT !.pc = "calc_read", !.inserted = TRUE,
                                     !.risk_db_id = Len(news_articles) + 1]]
              ELSE /\ news_articles' = news_articles
                   /\ workers' = [workers EXCEPT ![w] = OnError(wk, "insert", "insert", "calc_read")]
        /\ UNCHANGED <<opt, stream, library, raw_news_data, risk_calculations, sse_events,
                       queue, schedule, failed, db_faults>>

\* The daily aggregate over the rows read: the model keeps how many rows the
\* aggregate is made of.
Aggregate(latest_news) == latest_news

\* STEP 5, calculate_daily_risk_score, first half: read the rows of the latest
\* date (the articles of the model share one date).
CalcRead(w) ==
    LET wk == workers[w]
    IN  /\ wk.pc = "calc_read"
        /\ \E ok \in DbOutcomes :
              workers' = [workers EXCEPT ![w] =
                  IF ok
                  THEN [wk EXCEPT !.pc = "calc_write", !.latest_news = Len(news_articles)]
                  ELSE OnError(wk, "calc", "calc", "emit")]
        /\ UNCHANGED <<opt, stream, library, raw_news_data, news_articles, risk_calculations, sse_events,
                       queue, schedule, failed, db_faults>>

\* STEP 5, second half: INSERT OR REPLACE the aggregate, commit, insert the
\* risk_change event, commit.
CalcWrite(w) ==
    LET wk == workers[w]
        score == Aggregate(wk.latest_news)
    IN  /\ wk.pc = "calc_write"
        /\ \E upsert_ok \in DbOutcomes, event_ok \in DbOutcomes :
              /\ risk_calculations' = IF upsert_ok THEN score ELSE risk_calculations
              /\ sse_events' = IF upsert_ok /\ event_ok
                               THEN InsertRawEvent(sse_events, "risk_change",
                                                   RiskChangePayload(score))
                               ELSE sse_events
              /\ workers' = [workers EXCEPT ![w] =
                     IF upsert_ok /\ event_ok
                     THEN [wk EXCEPT !.pc = "emit", !.calc_ok = TRUE]
                     ELSE OnError(wk, "calc", "calc", "emit")]
        /\ UNCHANGED <<opt, stream, library, raw_news_data, news_articles,
                       queue, schedule, failed, db_faults>>

\* STEP 6: the news_update event.
EmitNewsUpdate(w) ==
    LET wk == workers[w]
    IN  /\ wk.pc = "emit"
        /\ \E ok \in DbOutcomes :
              IF ok
              THEN /\ sse_events' = InsertRawEvent(sse_events, "news_update",
                                                   NewsUpdatePayload(wk.risk_db_id))
                   /\ workers' = [workers EXCEPT ![w] =
                          [wk EXCEPT !.pc = "mark_final", !.emit_ok = TRUE]]
              ELSE /\ sse_events' = sse_events
                   /\ workers' = [workers EXCEPT ![w] = OnError(wk, "emit", "emit", "mark_final")]
        /\ UNCHANGED <<opt, stream, library, raw_news_data, news_articles, risk_calculations,
                       queue, schedule, failed, db_faults>>

\* FINAL STEP: mark the source processed and return the success result.
MarkProcessed(w) == MarkAndReturn(w, "mark_final", "success")

\* ------------------------------------------------------------------------
\* Spec: one worker, one queue, database statements that can fail
\* ------------------------------------------------------------------------

Init ==
    /\ opt = OptStart(0)
    /\ PipelineInit(1..NumArticles, {"w1"}, TRUE)
    /\ StreamInit
    /\ LibraryInit

Next ==
    \/ auto_process_news
    \/ publish_all_news
    \/ RetryDue
    \/ \E w \in DOMAIN workers : Dequeue(w)
    \/ \E w \in DOMAIN workers : Analyse(w)
    \/ \E w \in DOMAIN workers : MarkSkipped(w)
    \/ \E w \in DOMAIN workers : DuplicateCheck(w)
    \/ \E w \in DOMAIN workers : MarkDuplicate(w)
    \/ \E w \in DOMAIN workers : InsertArticle(w)
    \/ \E w \in DOMAIN workers : CalcRead(w)
    \/ \E w \in DOMAIN workers : CalcWrite(w)
    \/ \E w \in DOMAIN workers : EmitNewsUpdate(w)
    \/ \E w \in DOMAIN workers : MarkProcessed(w)
    \/ \E w \in DOMAIN workers : HueyComplete(w)
    \/ \E w \in DOMAIN workers : HueyOnError(w)

Spec == Init /\ [][Next]_vars

\* ------------------------------------------------------------------------
\* SpecWorkers: the workers of one consumer on one queue, a reliable database
\* ------------------------------------------------------------------------

InitWorkers ==
    /\ opt = OptStart(0)
    /\ PipelineInit(1..NumArticles, Workers, FALSE)
    /\ StreamInit
    /\ LibraryInit

SpecWorkers == InitWorkers /\ [][Next]_vars

\* ------------------------------------------------------------------------
\* FairScan: one worker, a reliable database, more unprocessed articles than
\* one scan selects. The scan runs every minute (strong fairness: it is
\* skipped only while a task waits); the worker and the retry timer never
\* stop.
\* ------------------------------------------------------------------------

ScanArticles == 1..(ScanLimit + 1)

InitScan ==
    /\ opt = OptStart(0)
    /\ PipelineInit(ScanArticles, {"w1"}, FALSE)
    /\ StreamInit
    /\ LibraryInit

WorkerStep(w) ==
    \/ Dequeue(w) \/ Analyse(w) \/ MarkSkipped(w) \/ DuplicateCheck(w) \/ MarkDuplicate(w)
    \/ InsertArticle(w) \/ CalcRead(w) \/ CalcWrite(w) \/ EmitNewsUpdate(w)
    \/ MarkProcessed(w) \/ HueyComplete(w) \/ HueyOnError(w)

FairScan ==
    /\ InitScan
    /\ [][Next]_vars
    /\ SF_vars(auto_process_news)
    /\ WF_vars(RetryDue)
    /\ WF_vars(WorkerStep("w1"))

\* ------------------------------------------------------------------------
\* SpecQuery: the event log under its producers, and get_events_since called
\* with any cursor and any limit
\* ------------------------------------------------------------------------

\* The rows the log holds at most.
MaxEvents == 3

\* The semantic types and the priorities the callers of emit_event pass.
EmitTypes == {"error", "news_feed_update"}
EmitPriorities == {{}, {10}, {90}}

\* The payload a caller of emit_event passes with the type.
EmitPayload(event_type) ==
    IF event_type = "error"
    THEN [error |-> "failed", action |-> "error_occurred"]
    ELSE [articles |-> 1, action |-> "feed_updated"]

\* A caller of emit_event.
EmitEvent ==
    /\ Len(sse_events) < MaxEvents
    /\ \E event_type \in EmitTypes, priority \in EmitPriorities :
          /\ sse_events' = emit_event(sse_events, event_type, EmitPayload(event_type), priority)
          /\ written' = Append(written, [event_type |-> event_type,
                                         event_data |-> EmitPayload(event_type)])
    /\ UNCHANGED <<opt, library, raw_news_data, news_articles, risk_calculations,
                   queue, schedule, failed, workers, db_faults,
                   subscribers, change_detection_cache, events_since>>

\* STEP 6 of process_news_article: the news_update row.
InsertNewsUpdate ==
    /\ Len(sse_events) < MaxEvents
    /\ LET payload == NewsUpdatePayload(Len(sse_events) + 1)
       IN  /\ sse_events' = InsertRawEvent(sse_events, "news_update", payload)
           /\ written' = Append(written, [event_type |-> "news_update", event_data |-> payload])
    /\ UNCHANGED <<opt, library, raw_news_data, news_articles, risk_calculations,
                   queue, schedule, failed, workers, db_faults,
                   subscribers, change_detection_cache, events_since>>

\* The end of calculate_daily_risk_score: the risk_change row.
InsertRiskChange ==
    /\ Len(sse_events) < MaxEvents
    /\ LET payload == RiskChangePayload(Len(sse_events) + 1)
       IN  /\ sse_events' = InsertRawEvent(sse_events, "risk_change", payload)
           /\ written' = Append(written, [event_type |-> "risk_change", event_data |-> payload])
    /\ UNCHANGED <<opt, library, raw_news_data, news_articles, risk_calculations,
                   queue, schedule, failed, workers, db_faults,
                   subscribers, change_detection_cache, events_since>>

\* A consumer calls get_events_since.
GetEventsSince ==
    /\ \E last_event_id \in 0..MaxEvents, limit \in 0..MaxEvents :
          events_since' = [last_event_id |-> last_event_id, limit |-> limit,
                           events |-> get_events_since(sse_events, last_event_id, limit),
                           called |-> TRUE]
    /\ UNCHANGED <<opt, library, raw_news_data, news_articles, risk_calculations, sse_events,
                   queue, schedule, failed, workers, db_faults,
                   subscribers, change_detection_cache, written>>

InitQuery ==
    /\ opt = OptStart(0)
    /\ PipelineInit({}, {}, FALSE)
    /\ StreamInit
    /\ LibraryInit

NextQuery == EmitEvent \/ InsertNewsUpdate \/ InsertRiskChange \/ GetEventsSince

SpecQuery == InitQuery /\ [][NextQuery]_vars

\* ------------------------------------------------------------------------
\* risk_dashboard_api.py: change detection. A payload is [type, value]: a
\* dict (value is a record) or a list (value is a sequence).
\* ------------------------------------------------------------------------

Dict(value) == [type |-> "dict", value |-> value]
List(value) == [type |-> "list", value |-> value]

\* The keys get_data_hash leaves out of a dict.
VolatileKeys == {"timestamp", "last_check", "triggered_by_event"}

\* get_data_hash: the md5 of the JSON text, modelled as the value the text
\* encodes; of a dict, without its volatile top-level keys; a list is hashed
\* whole.
get_data_hash(data) ==
    IF data.type = "dict"
    THEN [type |-> "md5",
          of |-> [k \in DOMAIN data.value \ VolatileKeys |-> data.value[k]]]
    ELSE [type |-> "md5", of |-> data.value]

\* should_emit_update(update_type, data) on the cache given: whether to emit,
\* and the cache after the call.
should_emit_update(cache, update_type, data) ==
    LET current_hash == get_data_hash(data)
        last_hash == cache[update_type]
    IN  IF current_hash # last_hash
        THEN [emit |-> TRUE, cache |-> [cache EXCEPT ![update_type] = current_hash]]
        ELSE [emit |-> FALSE, cache |-> cache]

\* A call f(**data) of a function whose parameters have no defaults: it
\* raises TypeError unless the keys are the parameter names.
AcceptsKeywords(parameters, data) == DOMAIN data = parameters

\* The parameters of emit_dashboard_summary_update.
DashboardSummaryParameters ==
    {"total_news_today", "critical_count", "high_count", "medium_count", "low_count",
     "avg_sentiment", "current_risk_score"}

\* ------------------------------------------------------------------------
\* risk_dashboard_api.py: the read models the stream derives from the
\* database. Every article of the model is Critical, of today and of one
\* category.
\* ------------------------------------------------------------------------

\* news_data of handle_cascading_updates: the latest articles, each with the
\* minutes since its publication.
NewsFeed(articles, minutes_ago) ==
    List([k \in 1..Len(articles) |-> [id |-> k, minutes_ago |-> minutes_ago]])

\* dashboard_data of handle_cascading_updates.
DashboardData(articles) ==
    [total_news_filtered |-> Len(articles), critical_count |-> Len(articles),
     high_count |-> 0, medium_count |-> 0, low_count |-> 0,
     avg_sentiment |-> 0, current_risk_score |-> 0]

\* breakdown_data of handle_cascading_updates: one entry per category.
BreakdownData(articles) ==
    IF articles = <<>> THEN <<>>
    ELSE <<[category |-> "market_risk", news_count |-> Len(articles)]>>

\* alert_data of handle_periodic_updates.
AlertData(articles) == [critical_count |-> Len(articles), last_check |-> "now"]

\* ------------------------------------------------------------------------
\* risk_dashboard_api.py: handle_cascading_updates and
\* handle_periodic_updates. db is [log, cache]: the rows of sse_events and
\* _change_detection_cache.
\* ------------------------------------------------------------------------

\* Cascade 1: the news feed.
CascadeNewsFeed(db, articles, minutes_ago, trigger_event_id) ==
    LET news_data == NewsFeed(articles, minutes_ago)
        offer == should_emit_update(db.cache, "news_feed", news_data)
    IN  IF offer.emit
        THEN [log |-> emit_event(db.log, "news_feed_update",
                                 [articles |-> news_data.value,
                                  triggered_by_event |-> trigger_event_id,
                                  action |-> "feed_updated"], {}),
              cache |-> offer.cache]
        ELSE db

\* Cascade 2: the dashboard summary. emit_dashboard_summary_update is called
\* with **dashboard_data; a TypeError of the call is caught by the except of
\* the cascade, which prints it and goes on.
CascadeDashboardSummary(db, articles) ==
    LET dashboard_data == DashboardData(articles)
        offer == should_emit_update(db.cache, "dashboard_summary", Dict(dashboard_data))
    IN  IF offer.emit
        THEN IF AcceptsKeywords(DashboardSummaryParameters, dashboard_data)
             THEN [log |-> emit_event(db.log, "dashboard_summary_update",
                                      dashboard_data @@ [action |-> "summary_updated"], {}),
                   cache |-> offer.cache]
             ELSE [log |-> db.log, cache |-> offer.cache]
        ELSE db

\* Cascade 3: the risk breakdown, offered only when it is not empty.
CascadeRiskBreakdown(db, articles) ==
    LET breakdown_data == BreakdownData(articles)
        offer == should_emit_update(db.cache, "risk_breakdown", List(breakdown_data))
    IN  IF breakdown_data # <<>> /\ offer.emit
        THEN [log |-> emit_event(db.log, "risk_breakdown_update",
                                 [breakdown |-> breakdown_data,
                                  action |-> "breakdown_updated"], {}),
              cache |-> offer.cache]
        ELSE db

\* handle_cascading_updates(original_event_type, event_data, trigger_event_id)
\* on a database that does not fail.
handle_cascading_updates(db, original_event_type, trigger_event_id, articles, latest_risk, minutes_ago) ==
    IF original_event_type = "news_update"
    THEN CascadeRiskBreakdown(
             CascadeDashboardSummary(
                 CascadeNewsFeed(db, articles, minutes_ago, trigger_event_id),
                 articles),
             articles)
    ELSE IF original_event_type \in {"risk_update", "risk_score_update"} /\ latest_risk # 0
    THEN [db EXCEPT !.log = emit_event(db.log, "risk_score_update",
                                       [overall_risk_score |-> latest_risk,
                                        action |-> "risk_score_updated"], {})]
    ELSE db

\* handle_periodic_updates: the alerts are offered when the critical count
\* differs from the one this subscriber saw last, or when two minutes have
\* passed (due); emit_alerts_update(**alert_data) is given its two parameters.
\* Returns the database and the subscriber's last_alert_state.
handle_periodic_updates(db, critical_count, articles, due) ==
    LET alert_data == AlertData(articles)
        should_emit_alert == critical_count # {alert_data.critical_count} \/ due
        offer == should_emit_update(db.cache, "alerts", Dict(alert_data))
    IN  IF ~should_emit_alert
        THEN [db |-> db, critical_count |-> critical_count]
        ELSE [db |-> IF offer.emit
                     THEN [log |-> emit_event(db.log, "alerts_update",
                                              alert_data @@ [action |-> "alerts_updated"], {}),
                           cache |-> offer.cache]
                     ELSE db,
              critical_count |-> {alert_data.critical_count}]

\* ------------------------------------------------------------------------
\* risk_dashboard_api.py: dashboard_event_generator, one generator per
\* connected subscriber. The generator runs from one suspension (the sleep,
\* or the yield of an event) to the next.
\* ------------------------------------------------------------------------

\* limit=50 of the generator's call of get_events_since.
StreamLimit == 2

Subscribers == {"s1", "s2"}

\* The minutes since an article's publication, as the cascade computes them.
Minutes == {0, 1}

\* The locals of a generator that has not run yet. critical_count is
\* last_alert_state['critical_count']: {} for None, {c} for the count c.
NewSubscriber ==
    [pc |-> "new", last_event_id |-> 0, new_events |-> <<>>, i |-> 0,
     delivered |-> <<>>, critical_count |-> {}]

\* The top of the while loop on the log given: get_events_since, then the
\* yield of the first event, or (no event) the periodic updates and the sleep.
LoopTop(s, sub, log, due) ==
    LET new_events == get_events_since(log, sub.last_event_id, StreamLimit)
        periodic == handle_periodic_updates([log |-> log, cache |-> change_detection_cache],
                                            sub.critical_count, news_articles, due)
    IN  IF new_events # <<>>
        THEN /\ subscribers' = [subscribers EXCEPT ![s] =
                    [sub EXCEPT !.pc = "yielded", !.new_events = new_events, !.i = 1,
                                !.delivered = Append(@, new_events[1].event_id)]]
             /\ sse_events' = log
             /\ change_detection_cache' = change_detection_cache
        ELSE /\ subscribers' = [subscribers EXCEPT ![s] =
                    [sub EXCEPT !.pc = "sleep", !.critical_count = periodic.critical_count]]
             /\ sse_events' = periodic.db.log
             /\ change_detection_cache' = periodic.db.cache

\* A client connects: the generator emits the connection event and enters the
\* loop.
Connect(s) ==
    /\ subscribers[s].pc = "new"
    /\ \E due \in BOOLEAN :
          LoopTop(s, subscribers[s],
                  emit_event(sse_events, "connection",
                             [status |-> "connected", last_event_id |-> 0,
                              action |-> "connection_established"], {}),
                  due)
    /\ UNCHANGED <<opt, library, raw_news_data, news_articles, risk_calculations,
                   queue, schedule, failed, workers, db_faults, events_since, written>>

\* The sleep of ten seconds is over: the next iteration of the loop.
Poll(s) ==
    /\ subscribers[s].pc = "sleep"
    /\ \E due \in BOOLEAN : LoopTop(s, subscribers[s], sse_events, due)
    /\ UNCHANGED <<opt, library, raw_news_data, news_articles, risk_calculations,
                   queue, schedule, failed, workers, db_faults, events_since, written>>

\* The client has taken the event yielded: the cascades of the event, the
\* cursor, and then the yield of the next event of the batch, or (the batch is
\* over) mark_events_processed, the periodic updates and the sleep.
Resume(s) ==
    LET sub == subscribers[s]
        event == sub.new_events[sub.i]
    IN  /\ sub.pc = "yielded"
        /\ \E minutes_ago \in Minutes, due \in BOOLEAN :
              LET cascaded == handle_cascading_updates(
                                  [log |-> sse_events, cache |-> change_detection_cache],
                                  event.original_event_type, event.event_id,
                                  news_articles, risk_calculations, minutes_ago)
                  processed_ids == {sub.new_events[k].event_id : k \in 1..Len(sub.new_events)}
                  periodic == handle_periodic_updates(
                                  [log |-> mark_events_processed(cascaded.log, processed_ids),
                                   cache |-> cascaded.cache],
                                  sub.critical_count, news_articles, due)
              IN  IF sub.i < Len(sub.new_events)
                  THEN /\ subscribers' = [subscribers EXCEPT ![s] =
                              [sub EXCEPT !.last_event_id = event.event_id, !.i = @ + 1,
                                          !.delivered = Append(@, sub.new_events[sub.i + 1].event_id)]]
                       /\ sse_events' = cascaded.log
                       /\ change_detection_cache' = cascaded.cache
                  ELSE /\ subscribers' = [subscribers EXCEPT ![s] =
                              [sub EXCEPT !.pc = "sleep", !.last_event_id = event.event_id,
                                          !.new_events = <<>>, !.i = 0,
                                          !.critical_count = periodic.critical_count]]
                       /\ sse_events' = periodic.db.log
                       /\ change_detection_cache' = periodic.db.cache
        /\ UNCHANGED <<opt, library, raw_news_data, news_articles, risk_calculations,
                       queue, schedule, failed, workers, db_faults, events_since, written>>

\* ------------------------------------------------------------------------
\* SpecStream: the subscribers of the dashboard stream, and a worker that
\* stores an article and publishes its events while they are connected
\* ------------------------------------------------------------------------

\* A worker whose task has passed the analysis.
Analysed(a) ==
    [Idle EXCEPT !.pc = "duplicate_check", !.task = [NewTask(a) EXCEPT !.attempts = 1]]

InitStream ==
    /\ opt = OptStart(0)
    /\ raw_news_data = [a \in 1..NumArticles |-> 0]
    /\ news_articles = <<>>
    /\ risk_calculations = 0
    /\ sse_events = <<>>
    /\ queue = <<>>
    /\ schedule = <<>>
    /\ failed = {}
    /\ workers = [w \in {"w1"} |-> Analysed(1)]
    /\ db_faults = FALSE
    /\ subscribers = [s \in Subscribers |-> NewSubscriber]
    /\ change_detection_cache = [update_type \in {"dashboard_summary", "risk_breakdown",
                                                  "news_feed", "alerts"} |-> NoHash]
    /\ events_since = NoCall
    /\ written = <<>>
    /\ LibraryInit

SubscriberStep(s) == Connect(s) \/ Poll(s) \/ Resume(s)

NextStream ==
    \/ \E w \in DOMAIN workers : DuplicateCheck(w)
    \/ \E w \in DOMAIN workers : InsertArticle(w)
    \/ \E w \in DOMAIN workers : CalcRead(w)
    \/ \E w \in DOMAIN workers : CalcWrite(w)
    \/ \E w \in DOMAIN workers : EmitNewsUpdate(w)
    \/ \E w \in DOMAIN workers : MarkProcessed(w)
    \/ \E w \in DOMAIN workers : HueyComplete(w)
    \/ \E s \in DOMAIN subscribers : Connect(s)
    \/ \E s \in DOMAIN subscribers : Poll(s)
    \/ \E s \in DOMAIN subscribers : Resume(s)

SpecStream == InitStream /\ [][NextStream]_vars

\* ------------------------------------------------------------------------
\* SpecStore: two workers, each with a task of its own article that has
\* passed the analysis, store their articles and recompute the daily
\* aggregate concurrently on a reliable database
\* ------------------------------------------------------------------------

\* The article of each worker's task.
ArticleOf(w) == IF w = "w1" THEN 1 ELSE 2

InitStore ==
    /\ opt = OptStart(0)
    /\ raw_news_data = [a \in {ArticleOf(w) : w \in Workers} |-> 0]
    /\ news_articles = <<>>
    /\ risk_calculations = 0
    /\ sse_events = <<>>
    /\ queue = <<>>
    /\ schedule = <<>>
    /\ failed = {}
    /\ workers = [w \in Workers |-> Analysed(ArticleOf(w))]
    /\ db_faults = FALSE
    /\ StreamInit
    /\ LibraryInit

NextStore ==
    \/ \E w \in DOMAIN workers : DuplicateCheck(w)
    \/ \E w \in DOMAIN workers : InsertArticle(w)
    \/ \E w \in DOMAIN workers : CalcRead(w)
    \/ \E w \in DOMAIN workers : CalcWrite(w)
    \/ \E w \in DOMAIN workers : EmitNewsUpdate(w)
    \/ \E w \in DOMAIN workers : MarkProcessed(w)
    \/ \E w \in DOMAIN workers : HueyComplete(w)

SpecStore == InitStore /\ [][NextStore]_vars

\* ------------------------------------------------------------------------
\* FairBacklog: the worker has stored the article and published its events
\* before the first subscriber connects. The event loop resumes every
\* generator again and again.
\* ------------------------------------------------------------------------

\* The database when the task of InitStream has run to its end.
Backlog ==
    /\ raw_news_data = [a \in 1..NumArticles |-> IF a = 1 THEN 1 ELSE 0]
    /\ news_articles = <<[key |-> KeyOf(1), sentiment_score |-> 0]>>
    /\ risk_calculations = Aggregate(1)
    /\ sse_events = InsertRawEvent(
                        InsertRawEvent(<<>>, "risk_change", RiskChangePayload(Aggregate(1))),
                        "news_update", NewsUpdatePayload(1))
    /\ workers = [w \in {"w1"} |-> Idle]

InitBacklog ==
    /\ opt = OptStart(0)
    /\ Backlog
    /\ queue = <<>>
    /\ schedule = <<>>
    /\ failed = {}
    /\ db_faults = FALSE
    /\ subscribers = [s \in Subscribers |-> NewSubscriber]
    /\ change_detection_cache = [update_type \in {"dashboard_summary", "risk_breakdown",
                                                  "news_feed", "alerts"} |-> NoHash]
    /\ events_since = NoCall
    /\ written = <<>>
    /\ LibraryInit

NextBacklog ==
    \/ \E s \in DOMAIN subscribers : Connect(s)
    \/ \E s \in DOMAIN subscribers : Poll(s)
    \/ \E s \in DOMAIN subscribers : Resume(s)

FairBacklog ==
    /\ InitBacklog
    /\ [][NextBacklog]_vars
    /\ \A s \in Subscribers : WF_vars(SubscriberStep(s))

\* ------------------------------------------------------------------------
\* news_risk_analyzer.py: DatabaseConnectionPool. A pool is
\* [connections, in_use, closed, created]: the idle list, the set of the
\* connections checked out, the connections closed, and how many connections
\* were made (a connection is the number of its creation).
\* ------------------------------------------------------------------------

\* Config.MAX_CONNECTIONS (5 unless the environment sets it).
MAX_CONNECTIONS == 2

\* The connections the pool of the model makes at most.
MaxCreated == 3

\* A mutant of PopIdle: the connection handed out stays in the idle list.
PopIdleKeep(connections) == connections

\* self._connections.pop(): the list without its last element.
PopIdle(connections) == SubSeq(connections, 1, Len(connections) - 1)

\* A mutant of HasRoom: one connection more than the maximum.
\* The same test with no ceiling at all.
HasRoomAlways(in_use) == TRUE

HasRoomOneMore(in_use) == Cardinality(in_use) <= MAX_CONNECTIONS

\* len(self._in_use) < self.max_connections
HasRoom(in_use) == Cardinality(in_use) < MAX_CONNECTIONS

\* get_connection, under the lock. connect_ok: sqlite3.connect returns;
\* pragma_ok: the two PRAGMA statements succeed. Returns the connection or
\* the exception, and the pool after the call.
get_connection(p, connect_ok, pragma_ok) ==
    IF p.connections # <<>>
    THEN LET conn == p.connections[Len(p.connections)]
         IN  [raised |-> FALSE, error |-> "none", conn |-> conn,
              pool |-> [p EXCEPT !.connections = PopIdle(p.connections),
                                 !.in_use = @ \cup {conn}]]
    ELSE IF HasRoom(p.in_use)
    THEN IF ~connect_ok
         THEN [raised |-> TRUE, error |-> "connect", conn |-> 0, pool |-> p]
         ELSE LET conn == p.created + 1
              IN  IF ~pragma_ok
                  THEN [raised |-> TRUE, error |-> "pragma", conn |-> 0,
                        pool |-> [p EXCEPT !.created = conn]]
                  ELSE [raised |-> FALSE, error |-> "none", conn |-> conn,
                        pool |-> [p EXCEPT !.created = conn, !.in_use = @ \cup {conn}]]
    ELSE [raised |-> TRUE, error |-> "exhausted", conn |-> 0, pool |-> p]

\* A mutant of return_connection: the connection is pooled without the probe.
return_connection_unprobed(p, conn, probe_ok) ==
    IF conn \in p.in_use
    THEN [p EXCEPT !.in_use = @ \ {conn}, !.connections = Append(@, conn)]
    ELSE p

\* return_connection, under the lock. probe_ok: SELECT 1 succeeds.
return_connection(p, conn, probe_ok) ==
    IF conn \in p.in_use
    THEN IF probe_ok
         THEN [p EXCEPT !.in_use = @ \ {conn}, !.connections = Append(@, conn)]
         ELSE [p EXCEPT !.in_use = @ \ {conn}, !.closed = @ \cup {conn}]
    ELSE p

\* ------------------------------------------------------------------------
\* SpecPool: the threads that use the risk database through
\* get_risk_db_connection, one more than the pool has connections
\* ------------------------------------------------------------------------

PoolThreads == 1..(MAX_CONNECTIONS + 1)

\* A thread outside every with-block. last is what its last call did: the
\* exception of get_connection ("exhausted", "connect", "pragma"), the probe
\* of return_connection ("ok", "failed"), or "second" for a return of a
\* connection it did not hold; conn is the connection of the block, or of
\* the second return.
NoBlock == [pc |-> "out", conn |-> 0, last |-> "none"]

\* get_connection makes a connection: only then can connect or PRAGMA fail.
Creates(p) == p.connections = <<>> /\ HasRoom(p.in_use)
Outcomes(p) == IF Creates(p) THEN BOOLEAN ELSE {TRUE}

\* with get_risk_db_connection() as conn: the thread takes the lock and gets
\* a connection, or the exception of get_connection leaves the block.
GetConnection(t) ==
    /\ callers[t].pc = "out"
    /\ \/ risk_db_pool.connections # <<>>
       \/ ~HasRoom(risk_db_pool.in_use)
       \/ risk_db_pool.created < MaxCreated
    /\ \E connect_ok \in Outcomes(risk_db_pool), pragma_ok \in Outcomes(risk_db_pool) :
          LET got == get_connection(risk_db_pool, connect_ok, pragma_ok)
          IN  /\ risk_db_pool' = got.pool
              /\ callers' = [callers EXCEPT ![t] =
                     IF got.raised
                     THEN [NoBlock EXCEPT !.last = got.error]
                     ELSE [NoBlock EXCEPT !.pc = "holding", !.conn = got.conn]]
    /\ UNCHANGED <<opt, pipeline, stream, knowledge_db_pool, call>>

\* The end of the with-block (finally): return_connection(conn).
ReturnConnection(t) ==
    /\ callers[t].pc = "holding"
    /\ \E probe_ok \in BOOLEAN :
          /\ risk_db_pool' = return_connection(risk_db_pool, callers[t].conn, probe_ok)
          /\ callers' = [callers EXCEPT ![t] =
                 [NoBlock EXCEPT !.last = IF probe_ok THEN "ok" ELSE "failed"]]
    /\ UNCHANGED <<opt, pipeline, stream, knowledge_db_pool, call>>

\* return_connection called with a connection that is not checked out, as a
\* second return of a connection is.
ReturnNotCheckedOut(t) ==
    /\ callers[t].pc = "out"
    /\ \E conn \in (1..risk_db_pool.created) \ risk_db_pool.in_use, probe_ok \in BOOLEAN :
          /\ risk_db_pool' = return_connection(risk_db_pool, conn, probe_ok)
          /\ callers' = [callers EXCEPT ![t] = [NoBlock EXCEPT !.last = "second", !.conn = conn]]
    /\ UNCHANGED <<opt, pipeline, stream, knowledge_db_pool, call>>

InitPool ==
    /\ opt = OptStart(0)
    /\ PipelineInit({}, {}, FALSE)
    /\ StreamInit
    /\ risk_db_pool = NewPool
    /\ knowledge_db_pool = NewPool
    /\ callers = [t \in PoolThreads |-> NoBlock]
    /\ call = NoFunction

NextPool ==
    \/ \E t \in DOMAIN callers : GetConnection(t)
    \/ \E t \in DOMAIN callers : ReturnConnection(t)
    \/ \E t \in DOMAIN callers : ReturnNotCheckedOut(t)

SpecPool == InitPool /\ [][NextPool]_vars

\* ------------------------------------------------------------------------
\* util.py: validate_risk_analysis. A string of categories is the sequence of
\* the pieces between its '|' characters; a piece is [pad, text], pad saying
\* that whitespace surrounds the text. Scores are in tenths (1000 is 100.0,
\* -23 is -2.3). An optional key is {} when absent and {value} when present.
\* ------------------------------------------------------------------------

\* The pieces a primary_risk_category has at most, and the entries of
\* secondary_risk_categories.
MaxCategories == 2
MaxSecondary == 2

valid_severities == {"Critical", "High", "Medium", "Low"}

valid_categories ==
    {"market_risk", "credit_risk", "operational_risk", "liquidity_risk",
     "cybersecurity_risk", "regulatory_risk", "systemic_risk", "reputational_risk"}

\* The string text with nothing around it.
Plain(text) == [pad |-> FALSE, text |-> text]

\* cat.strip()
Strip(piece) == [piece EXCEPT !.pad = FALSE]

\* cat in valid_categories, for one string without '|'.
IsValidCategory(piece) == ~piece.pad /\ piece.text \in valid_categories

\* '|' in primary_category
HasPipe(pieces) == Len(pieces) > 1

\* The value of a present key.
Value(optional) == CHOOSE v \in optional : TRUE

Members(list) == {list[k] : k \in 1..Len(list)}

\* A mutant of FirstCategory: the last piece is taken.
LastCategory(categories) == categories[Len(categories)]

\* categories[0]
FirstCategory(categories) == categories[1]

\* The block under "if '|' in primary_category": the first piece becomes the
\* primary, the others not in the secondaries at that moment are appended.
MoveToSecondary(analysis) ==
    LET pieces == Value(analysis.primary_risk_category)
        categories == [k \in 1..Len(pieces) |-> Strip(pieces[k])]
        present == IF analysis.secondary_risk_categories = {}
                   THEN <<>>
                   ELSE Value(analysis.secondary_risk_categories)
        others == SelectSeq(Tail(categories), LAMBDA cat : cat \notin Members(present))
    IN  [analysis EXCEPT !.primary_risk_category = {<<FirstCategory(categories)>>},
                         !.secondary_risk_categories = {present \o others}]

\* The loop over the secondaries: the entries outside valid_categories go.
ValidSecondaries(analysis) ==
    IF analysis.secondary_risk_categories = {}
    THEN analysis
    ELSE [analysis EXCEPT !.secondary_risk_categories =
              {SelectSeq(Value(@), LAMBDA cat : IsValidCategory(cat))}]

\* A mutant of Clamp: the upper bound is not applied.
ClampBelow(low, high, x) == IF x < low THEN low ELSE x

\* max(low, min(high, x))
Clamp(low, high, x) ==
    LET least == IF x < high THEN x ELSE high
    IN  IF least > low THEN least ELSE low

\* int(x) of a number in tenths: the fraction is cut off, towards zero.
ToInt(x) == IF x >= 0 THEN (x \div 10) * 10 ELSE -(((-x) \div 10) * 10)

\* The range checks and conversions of confidence_score and impact_score.
Score(x) == ToInt(IF 0 <= x /\ x <= 1000 THEN x ELSE Clamp(0, 1000, x))

\* The range check of sentiment_score (an absent key stays absent).
Sentiment(optional) ==
    IF optional = {}
    THEN {}
    ELSE LET sentiment == Value(optional)
         IN  IF -10 <= sentiment /\ sentiment <= 10
             THEN {sentiment}
             ELSE {Clamp(-10, 10, sentiment)}

\* The defaults loop, for the keys of the model.
Defaults(analysis) ==
    IF analysis.secondary_risk_categories = {}
    THEN [analysis EXCEPT !.secondary_risk_categories = {<<>>}]
    ELSE analysis

\* validate_risk_analysis: the analysis returned, or the exception.
validate_risk_analysis(analysis) ==
    IF analysis.primary_risk_category = {} \/ analysis.severity_level \notin valid_severities
    THEN [raised |-> TRUE, analysis |-> analysis]
    ELSE LET moved == IF HasPipe(Value(analysis.primary_risk_category))
                      THEN MoveToSecondary(analysis)
                      ELSE analysis
         IN  IF ~IsValidCategory(Value(moved.primary_risk_category)[1])
             THEN [raised |-> TRUE, analysis |-> moved]
             ELSE [raised |-> FALSE,
                   analysis |-> Defaults(
                       [ValidSecondaries(moved) EXCEPT
                           !.confidence_score = Score(@),
                           !.impact_score = Score(@),
                           !.sentiment_score = Sentiment(@)])]

\* ------------------------------------------------------------------------
\* SpecValidate: validate_risk_analysis applied to the analyses an LLM reply
\* can hold
\* ------------------------------------------------------------------------

\* The strings of a category list: two categories, one of them also with a
\* blank before it, and a name that is no category.
Pieces ==
    {Plain("market_risk"), Plain("credit_risk"), [pad |-> TRUE, text |-> "credit_risk"],
     Plain("unknown_risk")}

SecondaryEntries == {Plain("market_risk"), Plain("credit_risk"), Plain("unknown_risk")}

\* The analyses given to validate_risk_analysis. summary and description are
\* present; the scores are numbers.
ValidateInputs ==
    [primary_risk_category :
         {{}} \cup {{p} : p \in UNION {[1..n -> Pieces] : n \in 1..MaxCategories}},
     secondary_risk_categories :
         {{}} \cup {{s} : s \in UNION {[1..n -> SecondaryEntries] : n \in 0..MaxSecondary}},
     severity_level : {"High", "Extreme"},
     confidence_score : {-5, 0, 997, 1000, 1500},
     impact_score : {-5, 505, 1500},
     sentiment_score : {{}, {-23}, {-10}, {5}, {15}}]

InitValidate ==
    /\ opt = OptStart(0)
    /\ PipelineInit({}, {}, FALSE)
    /\ StreamInit
    /\ risk_db_pool = NewPool
    /\ knowledge_db_pool = NewPool
    /\ callers = [t \in {} |-> 0]
    /\ call \in {[function |-> "validate_risk_analysis", state |-> "called", analysis |-> a] :
                    a \in ValidateInputs}

Validate ==
    /\ call.function = "validate_risk_analysis"
    /\ call.state = "called"
    /\ LET out == validate_risk_analysis(call.analysis)
       IN  call' = [function |-> "validate_risk_analysis",
                    state |-> IF out.raised THEN "raised" ELSE "returned",
                    analysis |-> call.analysis,
                    result |-> out.analysis]
    /\ UNCHANGED <<opt, pipeline, stream, risk_db_pool, knowledge_db_pool, callers>>

NextValidate == Validate

SpecValidate == InitValidate /\ [][NextValidate]_vars

\* ------------------------------------------------------------------------
\* news_risk_analyzer.py: the risk trend of calculate_daily_risk_score.
\* Scores are in tenths (5 is 0.5); the overall score is at most 10.0.
\* ------------------------------------------------------------------------

\* min(base_risk_score + sentiment_adjustment + exposure_adjustment, 10.0)
MaxScore == 100

\* The trend of the score against the stored score of the day before
\* (previous_day_score is {} when the day before has no row).
risk_trend(overall_risk_score, previous_day_score) ==
    IF previous_day_score # {}
    THEN LET previous_risk == Value(previous_day_score)
             difference == overall_risk_score - previous_risk
         IN  IF overall_risk_score > previous_risk + 5
             THEN "Rising"
             ELSE IF overall_risk_score < previous_risk - 5
             THEN "Falling"
             ELSE IF (IF difference < 0 THEN -difference ELSE difference) > 10
             THEN "Volatile"
             ELSE "Stable"
    ELSE "Stable"

\* ------------------------------------------------------------------------
\* SpecTrend: the trend computed for every score of the range against every
\* stored score of the day before, and against no stored score. produced
\* keeps the trends computed so far.
\* ------------------------------------------------------------------------

InitTrend ==
    /\ opt = OptStart(0)
    /\ PipelineInit({}, {}, FALSE)
    /\ StreamInit
    /\ risk_db_pool = NewPool
    /\ knowledge_db_pool = NewPool
    /\ callers = [t \in {} |-> 0]
    /\ call = [function |-> "risk_trend", overall_risk_score |-> 0, previous_day_score |-> {},
               risk_trend |-> "none", produced |-> {}]

\* The last pair of the range.
LastPair ==
    /\ call.overall_risk_score = MaxScore
    /\ call.previous_day_score = {MaxScore}

\* The trend of the pair at hand.
RiskTrend ==
    /\ call.function = "risk_trend"
    /\ call.risk_trend = "none"
    /\ LET trend == risk_trend(call.overall_risk_score, call.previous_day_score)
       IN  call' = [call EXCEPT !.risk_trend = trend, !.produced = @ \cup {trend}]
    /\ UNCHANGED <<opt, pipeline, stream, risk_db_pool, knowledge_db_pool, callers>>

\* The next pair of the range: the next score, or the first score against
\* the next stored score.
NextCalculation ==
    /\ call.function = "risk_trend"
    /\ call.risk_trend # "none"
    /\ ~LastPair
    /\ call' = IF call.overall_risk_score < MaxScore
               THEN [call EXCEPT !.overall_risk_score = @ + 1, !.risk_trend = "none"]
               ELSE [call EXCEPT !.overall_risk_score = 0, !.risk_trend = "none",
                                 !.previous_day_score =
                                     IF @ = {} THEN {0} ELSE {Value(@) + 1}]
    /\ UNCHANGED <<opt, pipeline, stream, risk_db_pool, knowledge_db_pool, callers>>

NextTrend ==
    \/ RiskTrend
    \/ NextCalculation

SpecTrend == InitTrend /\ [][NextTrend]_vars

\* ------------------------------------------------------------------------
\* financial_risk_themes.py: classify_news_theme and its fallback. A JSON
\* value is [type, value]; the text of the article is reduced to the number
\* of keywords of each theme that it holds.
\* ------------------------------------------------------------------------

\* The keys of FINANCIAL_RISK_THEMES, in the order of the dictionary.
FINANCIAL_RISK_THEMES ==
    <<"credit_crisis", "market_volatility", "currency_crisis", "interest_rate_shock",
      "geopolitical_crisis", "trade_war_escalation", "regulatory_crackdown",
      "cyber_security_breach", "liquidity_shortage", "operational_disruption",
      "real_estate_crisis", "inflation_crisis", "sovereign_debt_crisis",
      "supply_chain_crisis", "esg_climate_risk", "systemic_banking_crisis",
      "other_financial_risks">>

ThemeIds == {FINANCIAL_RISK_THEMES[k] : k \in 1..Len(FINANCIAL_RISK_THEMES)}

risk_to_theme_map ==
    [credit_risk |-> "credit_crisis", market_risk |-> "market_volatility",
     currency_risk |-> "currency_crisis", exchange_risk |-> "currency_crisis",
     fx_risk |-> "currency_crisis", operational_risk |-> "operational_disruption",
     cybersecurity_risk |-> "cyber_security_breach", regulatory_risk |-> "regulatory_crackdown",
     liquidity_risk |-> "liquidity_shortage", systemic_risk |-> "systemic_banking_crisis",
     interest_rate_risk |-> "interest_rate_shock", geopolitical_risk |-> "geopolitical_crisis",
     real_estate_risk |-> "real_estate_crisis", climate_risk |-> "esg_climate_risk",
     esg_risk |-> "esg_climate_risk", inflation_risk |-> "inflation_crisis",
     sovereign_risk |-> "sovereign_debt_crisis", supply_chain_risk |-> "supply_chain_crisis"]

\* The keywords of the theme found in the text.
KeywordScore(matches, theme_id) == IF theme_id \in DOMAIN matches THEN matches[theme_id] ELSE 0

\* max(theme_scores.items(), key=score): the first theme of the dictionary
\* with the highest score.
BestTheme(matches) ==
    LET scored == {k \in 1..Len(FINANCIAL_RISK_THEMES) : KeywordScore(matches, FINANCIAL_RISK_THEMES[k]) > 0}
        best == CHOOSE k \in scored :
                    \A j \in scored :
                        \/ KeywordScore(matches, FINANCIAL_RISK_THEMES[j]) < KeywordScore(matches, FINANCIAL_RISK_THEMES[k])
                        \/ (KeywordScore(matches, FINANCIAL_RISK_THEMES[j]) = KeywordScore(matches, FINANCIAL_RISK_THEMES[k]) /\ k <= j)
    IN  FINANCIAL_RISK_THEMES[best]

\* classify_news_theme_fallback: keyword matching, then the map of the risk
\* categories, then the default. risk_categories is {} for None.
classify_news_theme_fallback(matches, risk_categories) ==
    IF \E theme_id \in ThemeIds : KeywordScore(matches, theme_id) > 0
    THEN LET best_theme == BestTheme(matches)
             points == KeywordScore(matches, best_theme) * 20
         IN  [raised |-> FALSE, primary_theme |-> best_theme,
              confidence |-> IF points < 100 THEN points ELSE 100,
              method |-> "keyword_fallback"]
    ELSE LET risks == IF risk_categories = {} THEN <<>> ELSE Value(risk_categories)
             mapped == {k \in 1..Len(risks) : risks[k] \in DOMAIN risk_to_theme_map}
         IN  IF mapped # {}
             THEN [raised |-> FALSE,
                   primary_theme |-> risk_to_theme_map[risks[CHOOSE k \in mapped : \A j \in mapped : k <= j]],
                   confidence |-> 60, method |-> "risk_category_fallback"]
             ELSE [raised |-> FALSE, primary_theme |-> "other_financial_risks",
                   confidence |-> 30, method |-> "default_fallback"]

\* theme_id in FINANCIAL_RISK_THEMES
ThemeExists(theme_id) == theme_id \in ThemeIds

\* The body of the try block: the reply of llm_call to a classification, or
\* the exception raised on the way.
LlmClassification(reply) ==
    IF reply.kind # "object"
    THEN [raised |-> TRUE]
    ELSE IF reply.primary_theme.type = "list"
    THEN [raised |-> TRUE]
    ELSE LET theme_id == IF reply.primary_theme.type = "absent"
                         THEN "other_financial_risks"
                         ELSE reply.primary_theme.value
         IN  IF ~ThemeExists(theme_id)
             THEN [raised |-> FALSE, primary_theme |-> "other_financial_risks",
                   confidence |-> 30, method |-> "llm_classification"]
             ELSE IF reply.confidence.type = "string"
             THEN [raised |-> TRUE]
             ELSE LET confidence == IF reply.confidence.type = "absent"
                                    THEN 70
                                    ELSE reply.confidence.value
                  IN  [raised |-> FALSE, primary_theme |-> theme_id,
                       confidence |-> Clamp(1, 100, confidence),
                       method |-> "llm_classification"]

\* A mutant of Except: the exception of the try block leaves the function.
ExceptNothing(attempt, handler) == attempt

\* try: ... except Exception: return the handler's value.
Except(attempt, handler) == IF attempt.raised THEN handler ELSE attempt

classify_news_theme(reply, matches, risk_categories) ==
    Except(LlmClassification(reply), classify_news_theme_fallback(matches, risk_categories))

\* ------------------------------------------------------------------------
\* SpecTheme: classify_news_theme applied to the replies of the LLM, the
\* texts and the risk categories of an article
\* ------------------------------------------------------------------------

\* The value of "primary_theme" and of "confidence" in the JSON of a reply.
ThemeValues ==
    {[type |-> "absent", value |-> ""], [type |-> "list", value |-> ""]}
        \cup {[type |-> "string", value |-> v] :
                 v \in {"credit_crisis", "market_volatility", "banking_panic"}}

ConfidenceValues ==
    {[type |-> "absent", value |-> 0], [type |-> "string", value |-> 0]}
        \cup {[type |-> "number", value |-> v] : v \in {-5, 85, 150}}

\* llm_call raises, or its text holds no {...}, or one that json.loads
\* rejects, or an object.
ThemeReplies ==
    {[kind |-> k, primary_theme |-> [type |-> "absent", value |-> ""],
      confidence |-> [type |-> "absent", value |-> 0]] : k \in {"error", "no_json", "not_json"}}
        \cup {[kind |-> "object", primary_theme |-> t, confidence |-> c] :
                 t \in ThemeValues, c \in ConfidenceValues}

\* The keywords found: none, one, or more than five of a theme.
KeywordMatches == [{"credit_crisis", "market_volatility"} -> {0, 1, 6}]

\* The risk categories of the call: None, or a list of valid categories
\* (reputational_risk is not in risk_to_theme_map).
RiskCategoryLists ==
    {{}} \cup {{r} : r \in UNION {[1..n -> {"market_risk", "credit_risk", "reputational_risk"}] :
                                      n \in 0..MaxSecondary}}

InitTheme ==
    /\ opt = OptStart(0)
    /\ PipelineInit({}, {}, FALSE)
    /\ StreamInit
    /\ risk_db_pool = NewPool
    /\ knowledge_db_pool = NewPool
    /\ callers = [t \in {} |-> 0]
    /\ call \in {[function |-> "classify_news_theme", state |-> "called",
                  reply |-> r, matches |-> m, risk_categories |-> c] :
                     r \in ThemeReplies, m \in KeywordMatches, c \in RiskCategoryLists}

ClassifyNewsTheme ==
    /\ call.function = "classify_news_theme"
    /\ call.state = "called"
    /\ LET out == classify_news_theme(call.reply, call.matches, call.risk_categories)
       IN  call' = [function |-> "classify_news_theme",
                    state |-> IF out.raised THEN "raised" ELSE "returned",
                    reply |-> call.reply, matches |-> call.matches,
                    risk_categories |-> call.risk_categories,
                    result |-> out]
    /\ UNCHANGED <<opt, pipeline, stream, risk_db_pool, knowledge_db_pool, callers>>

NextTheme == ClassifyNewsTheme

SpecTheme == InitTheme /\ [][NextTheme]_vars

\* ------------------------------------------------------------------------
\* evaluator_optimizer.py: get_recent_scoring_context, the one database
\* access of optimize_risk_analysis (generate_risk_analysis calls it before
\* its llm_call)
\* ------------------------------------------------------------------------

\* The iterations of a call in SpecFrame at most.
FrameIterations == 2

\* get_recent_scoring_context(limit=50)
ContextLimit == 50

\* A mutant of SelectRecent: the rows read are taken out of the table.
SelectRecentRemoving(table, limit) ==
    [rows |-> [k \in 1..Len(Take(table, limit)) |-> table[Len(table) + 1 - k]],
     table |-> SubSeq(table, 1, Len(table) - Len(Take(table, limit)))]

\* SELECT ... FROM news_articles ORDER BY published_date DESC LIMIT ?: the
\* newest rows first, and the table after the statement.
SelectRecent(table, limit) ==
    [rows |-> [k \in 1..Len(Take(table, limit)) |-> table[Len(table) + 1 - k]],
     table |-> table]

\* get_recent_scoring_context: the text returned, the pool and the table
\* after the call. Every exception ends in "Context unavailable"; the
\* connections of the pool have no row_factory, so a row is a tuple and
\* art['is_market_moving'] raises TypeError when there is a row.
get_recent_scoring_context(p, table, connect_ok, pragma_ok, select_ok, probe_ok) ==
    LET got == get_connection(p, connect_ok, pragma_ok)
    IN  IF got.raised
        THEN [context |-> "Context unavailable", pool |-> got.pool, news_articles |-> table]
        ELSE LET returned == return_connection(got.pool, got.conn, probe_ok)
                 read == SelectRecent(table, ContextLimit)
             IN  IF ~select_ok
                 THEN [context |-> "Context unavailable", pool |-> returned, news_articles |-> table]
                 ELSE IF read.rows = <<>>
                 THEN [context |-> "No recent articles for comparison.", pool |-> returned,
                       news_articles |-> read.table]
                 ELSE [context |-> "Context unavailable", pool |-> returned,
                       news_articles |-> read.table]

\* ------------------------------------------------------------------------
\* SpecFrame: one call of optimize_risk_analysis over a database that is
\* empty or holds a stored article, its aggregate and its events
\* ------------------------------------------------------------------------

InitFrame ==
    /\ \E n \in 0..FrameIterations : opt = OptStart(n)
    /\ \E stored \in BOOLEAN :
          /\ raw_news_data = [a \in {1, 2} |-> IF stored /\ a = 1 THEN 1 ELSE 0]
          /\ news_articles = IF stored THEN <<[key |-> KeyOf(1), sentiment_score |-> 0]>> ELSE <<>>
          /\ risk_calculations = IF stored THEN Aggregate(1) ELSE 0
          /\ sse_events = IF stored
                          THEN InsertRawEvent(
                                   InsertRawEvent(<<>>, "risk_change", RiskChangePayload(Aggregate(1))),
                                   "news_update", NewsUpdatePayload(1))
                          ELSE <<>>
    /\ queue = <<>>
    /\ schedule = <<>>
    /\ failed = {}
    /\ workers = [w \in {} |-> Idle]
    /\ db_faults = TRUE
    /\ StreamInit
    /\ LibraryInit

\* generate_risk_analysis of the current iteration: the scoring context is
\* read, then the generator's LLM call returns or raises.
FrameGenerate ==
    /\ opt.state = "GENERATE"
    /\ risk_db_pool.created < MaxCreated
    /\ \E connect_ok \in Outcomes(risk_db_pool), pragma_ok \in Outcomes(risk_db_pool),
          select_ok \in DbOutcomes, probe_ok \in DbOutcomes, reply \in GenReplies :
          LET read == get_recent_scoring_context(risk_db_pool, news_articles,
                                                 connect_ok, pragma_ok, select_ok, probe_ok)
          IN  /\ risk_db_pool' = read.pool
              /\ news_articles' = read.news_articles
              /\ call' = [function |-> "get_recent_scoring_context", context |-> read.context]
              /\ opt' = GenerateStep(opt, reply)
    /\ UNCHANGED <<stream, knowledge_db_pool, callers, raw_news_data, risk_calculations, sse_events,
                   queue, schedule, failed, workers, db_faults>>

NextFrame ==
    \/ FrameGenerate
    \/ OptEvaluate

SpecFrame == InitFrame /\ [][NextFrame]_vars

\* ------------------------------------------------------------------------
\* sse_event_system.py: cleanup_old_events. Time is counted in days; every
\* INSERT into sse_events writes created_at = datetime('now').
\* ------------------------------------------------------------------------

\* cleanup_old_events(days_old: int = 7)
RetentionDays == 7

\* The days the clock of SpecCleanup runs.
MaxClock == 9

\* A mutant of Expired: the processed flag is not looked at.
ExpiredUnflagged(row, now, days_old) == row.created_at < now - days_old

\* WHERE processed = 1 AND created_at < datetime('now', '-N days')
Expired(row, now, days_old) == row.processed = 1 /\ row.created_at < now - days_old

\* cleanup_old_events, its DELETE succeeding: the log after it and the
\* rowcount returned.
cleanup_old_events(log, now, days_old) ==
    LET kept == SelectSeq(log, LAMBDA row : ~Expired(row, now, days_old))
    IN  [log |-> kept, removed_count |-> Len(log) - Len(kept)]

\* The row an INSERT has just appended, with its created_at.
Stamped(log, now) ==
    [i \in 1..Len(log) |->
        IF i = Len(log)
        THEN [event_id |-> log[i].event_id, event_type |-> log[i].event_type,
              event_data |-> log[i].event_data, priority |-> log[i].priority,
              processed |-> log[i].processed, created_at |-> now]
        ELSE log[i]]

\* ------------------------------------------------------------------------
\* SpecCleanup: events are appended and marked processed as the days pass,
\* and cleanup_old_events is called at any time
\* ------------------------------------------------------------------------

InitCleanup ==
    /\ opt = OptStart(0)
    /\ PipelineInit({}, {}, TRUE)
    /\ StreamInit
    /\ risk_db_pool = NewPool
    /\ knowledge_db_pool = NewPool
    /\ callers = [t \in {} |-> 0]
    /\ call = [function |-> "cleanup_old_events", now |-> 0, removed_count |-> 0]

\* A day passes.
CleanupDay ==
    /\ call.function = "cleanup_old_events"
    /\ call.now < MaxClock
    /\ call' = [call EXCEPT !.now = @ + 1]
    /\ UNCHANGED <<opt, pipeline, stream, risk_db_pool, knowledge_db_pool, callers>>

\* emit_event appends a row.
CleanupEmit ==
    /\ call.function = "cleanup_old_events"
    /\ Len(sse_events) < MaxEvents
    /\ sse_events' = Stamped(emit_event(sse_events, "news_feed_update",
                                        EmitPayload("news_feed_update"), {}), call.now)
    /\ UNCHANGED <<opt, stream, library, raw_news_data, news_articles, risk_calculations,
                   queue, schedule, failed, workers, db_faults>>

\* mark_events_processed([event_id])
CleanupMark ==
    /\ call.function = "cleanup_old_events"
    /\ \E i \in 1..Len(sse_events) :
          /\ sse_events[i].processed = 0
          /\ sse_events' = mark_events_processed(sse_events, {sse_events[i].event_id})
    /\ UNCHANGED <<opt, stream, library, raw_news_data, news_articles, risk_calculations,
                   queue, schedule, failed, workers, db_faults>>

\* cleanup_old_events(): the DELETE and its commit succeed, or an exception
\* is caught and 0 is returned.
CleanupOldEvents ==
    /\ call.function = "cleanup_old_events"
    /\ \E ok \in DbOutcomes :
          LET out == cleanup_old_events(sse_events, call.now, RetentionDays)
          IN  /\ sse_events' = IF ok THEN out.log ELSE sse_events
              /\ call' = [call EXCEPT !.removed_count = IF ok THEN out.removed_count ELSE 0]
    /\ UNCHANGED <<opt, stream, risk_db_pool, knowledge_db_pool, callers, raw_news_data, news_articles,
                   risk_calculations, queue, schedule, failed, workers, db_faults>>

NextCleanup ==
    \/ CleanupDay
    \/ CleanupEmit
    \/ CleanupMark
    \/ CleanupOldEvents

SpecCleanup == InitCleanup /\ [][NextCleanup]_vars

\* ------------------------------------------------------------------------
\* news_risk_analyzer.py: should_process_news, the pre-filter. A reply text is
\* [pad, text] as the strings of validate_risk_analysis are.
\* ------------------------------------------------------------------------

\* A mutant of Upper: the text is left in its case.
UpperAsIs(text) == text

\* str.upper() on the words of the model.
Upper(text) ==
    CASE text \in {"skip", "Skip", "sKiP"} -> "SKIP"
      [] text \in {"process", "Process"} -> "PROCESS"
      [] text = "skip." -> "SKIP."
      [] OTHER -> text

\* The body of the try block of should_process_news: the prompt is built
\* from news_data, the LLM is called, the reply is compared.
PreFilterDecision(news_data, reply) ==
    IF news_data # "complete" \/ reply.kind # "text"
    THEN [raised |-> TRUE, value |-> TRUE]
    ELSE LET decision == [Strip(reply.content) EXCEPT !.text = Upper(@)]
         IN  IF decision = Plain("PROCESS")
             THEN [raised |-> FALSE, value |-> TRUE]
             ELSE IF decision = Plain("SKIP")
             THEN [raised |-> FALSE, value |-> FALSE]
             ELSE [raised |-> FALSE, value |-> TRUE]

\* should_process_news: True for PROCESS, False for SKIP.
should_process_news(news_data, reply) ==
    Except(PreFilterDecision(news_data, reply), [raised |-> FALSE, value |-> TRUE])

\* ------------------------------------------------------------------------
\* SpecFilter: should_process_news applied to the replies of the LLM
\* ------------------------------------------------------------------------

\* news_data: with its keys, without 'headline' (KeyError), or with a story
\* that is None (TypeError on the slice).
FilterNews == {"complete", "no_headline", "story_none"}

\* llm_call raises, returns None, or returns a text.
FilterReplies ==
    {[kind |-> k, content |-> Plain("")] : k \in {"error", "none"}}
        \cup {[kind |-> "text", content |-> [pad |-> p, text |-> t]] :
                 p \in BOOLEAN,
                 t \in {"PROCESS", "SKIP", "process", "skip", "Process", "Skip", "sKiP",
                        "SKIP.", "skip.", "SKIP PROCESS", "NO", ""}}

InitFilter ==
    /\ opt = OptStart(0)
    /\ PipelineInit({}, {}, FALSE)
    /\ StreamInit
    /\ risk_db_pool = NewPool
    /\ knowledge_db_pool = NewPool
    /\ callers = [t \in {} |-> 0]
    /\ call \in {[function |-> "should_process_news", state |-> "called",
                  news_data |-> n, reply |-> r] : n \in FilterNews, r \in FilterReplies}

ShouldProcessNews ==
    /\ call.function = "should_process_news"
    /\ call.state = "called"
    /\ LET out == should_process_news(call.news_data, call.reply)
       IN  call' = [function |-> "should_process_news",
                    state |-> IF out.raised THEN "raised" ELSE "returned",
                    news_data |-> call.news_data, reply |-> call.reply,
                    value |-> out.value]
    /\ UNCHANGED <<opt, pipeline, stream, risk_db_pool, knowledge_db_pool, callers>>

NextFilter == ShouldProcessNews

SpecFilter == InitFilter /\ [][NextFilter]_vars

\* ------------------------------------------------------------------------
\* SpecScan: the periodic scan and one worker, with more unprocessed
\* articles than one scan selects; nobody runs the publisher
\* ------------------------------------------------------------------------

NextScan ==
    \/ auto_process_news
    \/ RetryDue
    \/ \E w \in DOMAIN workers : WorkerStep(w)

SpecScan == InitScan /\ [][NextScan]_vars

\* ------------------------------------------------------------------------
\* FairCascade: one connected generator and a log the producers have stopped
\* appending to. The event loop resumes the generator again and again.
\*
\* get_events_since reads the rows with event_id > last_event_id only, and
\* the cursor a batch leaves is the id of a row above the cursor before the
\* batch: the rows at or below the cursor of a sleeping generator are never
\* read again. sse_events holds the rows above that cursor, their ids counted
\* from it, and call.appended the rows the last step of the generator has
\* appended.
\* ------------------------------------------------------------------------

\* The event types a producer has appended with emit_event before it stopped.
ProducerTypes == {"risk_update", "risk_score_update", "news_feed_update", "error"}

\* The payload of a producer's event.
ProducerPayload(event_type) ==
    IF event_type \in {"risk_update", "risk_score_update"}
    THEN [overall_risk_score |-> 1, action |-> "risk_score_updated"]
    ELSE EmitPayload(event_type)

\* The rows of the log above the cursor, their ids counted from the cursor.
RowsAbove(log, cursor) ==
    LET above == SelectSeq(log, LAMBDA row : row.event_id > cursor)
    IN  [k \in 1..Len(above) |-> [above[k] EXCEPT !.event_id = @ - cursor]]

\* A generator asleep in its loop with its cursor on the last row it was sent.
Asleep == [NewSubscriber EXCEPT !.pc = "sleep"]

Appended(n) == [function |-> "dashboard_event_generator", appended |-> n]

\* How many events the producers have emitted before they stopped, at most.
MaxProduced == 2

ProducerRuns == UNION {[1..n -> ProducerTypes] : n \in 0..MaxProduced}

\* emit_event for each of the producers' events in turn.
RECURSIVE EmitAll(_, _)
EmitAll(log, event_types) ==
    IF event_types = <<>> THEN log
    ELSE EmitAll(emit_event(log, Head(event_types), ProducerPayload(Head(event_types)), {}),
                 Tail(event_types))

\* The log when the producers stop: the rows of a stored article or none,
\* and then the events the producers have emitted.
Produced(stored, event_types) ==
    EmitAll(IF stored
            THEN InsertRawEvent(
                     InsertRawEvent(<<>>, "risk_change", RiskChangePayload(Aggregate(1))),
                     "news_update", NewsUpdatePayload(1))
            ELSE <<>>,
            event_types)

InitCascade ==
    /\ opt = OptStart(0)
    /\ \E stored \in BOOLEAN, event_types \in ProducerRuns :
          /\ raw_news_data = [a \in 1..NumArticles |-> IF stored /\ a = 1 THEN 1 ELSE 0]
          /\ news_articles = IF stored THEN <<[key |-> KeyOf(1), sentiment_score |-> 0]>>
                                       ELSE <<>>
          /\ risk_calculations = IF stored THEN Aggregate(1) ELSE 0
          /\ sse_events = Produced(stored, event_types)
    /\ queue = <<>>
    /\ schedule = <<>>
    /\ failed = {}
    /\ workers = [w \in {"w1"} |-> Idle]
    /\ db_faults = FALSE
    /\ subscribers = [s \in {"s1"} |-> Asleep]
    /\ change_detection_cache = [update_type \in {"dashboard_summary", "risk_breakdown",
                                                  "news_feed", "alerts"} |-> NoHash]
    /\ events_since = NoCall
    /\ written = <<>>
    /\ risk_db_pool = NewPool
    /\ knowledge_db_pool = NewPool
    /\ callers = [t \in {} |-> 0]
    /\ call = Appended(0)

\* The sleep is over: get_events_since, then the yield of the first event,
\* or (no event) the periodic updates and the sleep.
CascadePoll(s) ==
    LET sub == subscribers[s]
        new_events == get_events_since(sse_events, sub.last_event_id, StreamLimit)
    IN  /\ sub.pc = "sleep"
        /\ \E due \in BOOLEAN :
              LET periodic == handle_periodic_updates(
                                  [log |-> sse_events, cache |-> change_detection_cache],
                                  sub.critical_count, news_articles, due)
              IN  IF new_events # <<>>
                  THEN /\ subscribers' = [subscribers EXCEPT ![s] =
                              [sub EXCEPT !.pc = "yielded", !.new_events = new_events, !.i = 1]]
                       /\ UNCHANGED <<sse_events, change_detection_cache>>
                       /\ call' = Appended(0)
                  ELSE /\ subscribers' = [subscribers EXCEPT ![s] =
                              [sub EXCEPT !.critical_count = periodic.critical_count]]
                       /\ sse_events' = RowsAbove(periodic.db.log, sub.last_event_id)
                       /\ change_detection_cache' = periodic.db.cache
                       /\ call' = Appended(Len(periodic.db.log) - Len(sse_events))
        /\ UNCHANGED <<opt, raw_news_data, news_articles, risk_calculations,
                       queue, schedule, failed, workers, db_faults, events_since, written,
                       risk_db_pool, knowledge_db_pool, callers>>

\* The client has taken the event yielded: the cascades of the event, the
\* cursor, and then the yield of the next event of the batch, or (the batch is
\* over) mark_events_processed, the periodic updates and the sleep.
CascadeResume(s) ==
    LET sub == subscribers[s]
        event == sub.new_events[sub.i]
    IN  /\ sub.pc = "yielded"
        /\ \E minutes_ago \in Minutes, due \in BOOLEAN :
              LET cascaded == handle_cascading_updates(
                                  [log |-> sse_events, cache |-> change_detection_cache],
                                  event.original_event_type, event.event_id,
                                  news_articles, risk_calculations, minutes_ago)
                  processed_ids == {sub.new_events[k].event_id : k \in 1..Len(sub.new_events)}
                  periodic == handle_periodic_updates(
                                  [log |-> mark_events_processed(cascaded.log, processed_ids),
                                   cache |-> cascaded.cache],
                                  sub.critical_count, news_articles, due)
              IN  IF sub.i < Len(sub.new_events)
                  THEN /\ subscribers' = [subscribers EXCEPT ![s] =
                              [sub EXCEPT !.last_event_id = event.event_id, !.i = @ + 1]]
                       /\ sse_events' = cascaded.log
                       /\ change_detection_cache' = cascaded.cache
                       /\ call' = Appended(Len(cascaded.log) - Len(sse_events))
                  ELSE /\ subscribers' = [subscribers EXCEPT ![s] =
                              [sub EXCEPT !.pc = "sleep", !.last_event_id = 0,
                                          !.new_events = <<>>, !.i = 0,
                                          !.critical_count = periodic.critical_count]]
                       /\ sse_events' = RowsAbove(periodic.db.log, event.event_id)
                       /\ change_detection_cache' = periodic.db.cache
                       /\ call' = Appended(Len(periodic.db.log) - Len(sse_events))
        /\ UNCHANGED <<opt, raw_news_data, news_articles, risk_calculations,
                       queue, schedule, failed, workers, db_faults, events_since, written,
                       risk_db_pool, knowledge_db_pool, callers>>

NextCascade ==
    \/ \E s \in DOMAIN subscribers : CascadePoll(s)
    \/ \E s \in DOMAIN subscribers : CascadeResume(s)

FairCascade ==
    /\ InitCascade
    /\ [][NextCascade]_vars
    /\ WF_vars(CascadePoll("s1"))
    /\ WF_vars(CascadeResume("s1"))

\* ------------------------------------------------------------------------
\* FairTicks: SpecScan with the scan, the retry timer and the worker fairly
\* scheduled. Nobody runs a manual command.
\* ------------------------------------------------------------------------

FairTicks ==
    /\ InitScan
    /\ [][NextScan]_vars
    /\ SF_vars(auto_process_news)
    /\ WF_vars(RetryDue)
    /\ WF_vars(WorkerStep("w1"))

\* ------------------------------------------------------------------------
\* news_risk_analyzer.py, evaluator_optimizer.py: the with-blocks and the LLM
\* calls of process_news_article and of calculate_daily_risk_score, in the
\* order of the source. A thread is [function, pc, inside, held, iteration]:
\* pc is the statement it is at, inside whether it has entered the with-block
\* at pc, held the connections of the with-blocks it is in, innermost last.
\* ------------------------------------------------------------------------

\* The with-blocks: get_recent_scoring_context, the skip of a positive
\* article, the duplicate check and the mark inside it, the INSERT,
\* calculate_daily_risk_score, the news_update event, the processed flag.
WithBlocks ==
    {"context", "mark_skipped", "duplicate_check", "mark_duplicate", "insert",
     "calculate", "emit", "mark_processed"}

\* The calls of llm_call: generator, evaluator, theme classifier.
LlmCalls == {"llm_generator", "llm_evaluator", "llm_theme"}

\* get_risk_db_connection or get_knowledge_db_connection.
PoolOf(block) ==
    IF block \in {"mark_skipped", "mark_duplicate", "mark_processed"}
    THEN "knowledge" ELSE "risk"

\* Where the function goes on when the with-block has ended without an
\* exception.
AfterBlock(function, block) ==
    CASE block = "context" -> "llm_generator"
      [] block = "mark_skipped" -> "returned"
      [] block = "duplicate_check" -> "insert"
      [] block = "mark_duplicate" -> "duplicate_return"
      [] block = "insert" -> "calculate"
      [] block = "calculate" ->
            IF function = "calculate_daily_risk_score" THEN "returned" ELSE "emit"
      [] block = "emit" -> "mark_processed"
      [] block = "mark_processed" -> "returned"

\* Where the function goes on when get_connection or the body of the block
\* has raised: the except clause around the block swallows the exception, or
\* the function raises.
AfterRaise(function, block) ==
    CASE block = "context" -> "llm_generator"
      [] block = "mark_skipped" -> "returned"
      [] block = "duplicate_check" -> "raised"
      [] block = "mark_duplicate" -> "duplicate_return"
      [] block = "insert" -> "raised"
      [] block = "calculate" ->
            IF function = "calculate_daily_risk_score" THEN "raised" ELSE "emit"
      [] block = "emit" -> "mark_processed"
      [] block = "mark_processed" -> "returned"

\* What the body of a with-block can do: end, raise, or (the duplicate check
\* that found the article) go on to a statement inside the block.
BodyOutcomes(block) ==
    IF block = "duplicate_check" THEN {"ok", "raise", "existing"} ELSE {"ok", "raise"}

\* The finally clause of the context manager runs however the body ended.
FinallyUnlessRaised(outcome) == outcome # "raise"

Finally(outcome) == TRUE

\* The LLM call is made after the with-block of the scoring context, not in
\* it.
StaysInsideWithContext(block, outcome) ==
    block = "context" \/ (block = "duplicate_check" /\ outcome = "existing")

StaysInside(block, outcome) == block = "duplicate_check" /\ outcome = "existing"

TaskThreads == {"t1", "t2"}

\* t1 is a worker that runs process_news_article, t2 the thread that runs
\* update_daily_risk_calculation, the task of calculate_daily_risk_score.
TaskFunctions(t) ==
    IF t = "t1" THEN {"process_news_article"} ELSE {"calculate_daily_risk_score"}

NoTask == [function |-> "none", pc |-> "idle", inside |-> FALSE, held |-> <<>>, iteration |-> 0]

Pool(name) == IF name = "risk" THEN risk_db_pool ELSE knowledge_db_pool

\* The two pools after pool name has become p.
SetPool(name, p) ==
    /\ risk_db_pool' = IF name = "risk" THEN p ELSE risk_db_pool
    /\ knowledge_db_pool' = IF name = "knowledge" THEN p ELSE knowledge_db_pool

\* Huey hands a task to the thread.
TaskStart(t) ==
    /\ callers[t].pc = "idle"
    /\ \E function \in TaskFunctions(t) :
          callers' = [callers EXCEPT ![t] =
              [NoTask EXCEPT !.function = function,
                             !.pc = IF function = "process_news_article"
                                    THEN "context" ELSE "calculate",
                             !.iteration = 1]]
    /\ UNCHANGED <<opt, pipeline, stream, risk_db_pool, knowledge_db_pool, call>>

\* with get_..._db_connection() as conn: the pool's get_connection.
EnterWith(t) ==
    LET th == callers[t]
        p == Pool(PoolOf(th.pc))
    IN  /\ th.pc \in WithBlocks
        /\ ~th.inside
        /\ \/ p.connections # <<>>
           \/ ~HasRoom(p.in_use)
           \/ p.created < MaxCreated
        /\ \E connect_ok \in Outcomes(p), pragma_ok \in Outcomes(p) :
              LET got == get_connection(p, connect_ok, pragma_ok)
              IN  /\ SetPool(PoolOf(th.pc), got.pool)
                  /\ callers' = [callers EXCEPT ![t] =
                         IF got.raised
                         THEN [th EXCEPT !.pc = AfterRaise(th.function, th.pc)]
                         ELSE [th EXCEPT !.inside = TRUE,
                                         !.held = Append(@, [pool |-> PoolOf(th.pc),
                                                             conn |-> got.conn])]]
        /\ UNCHANGED <<opt, pipeline, stream, call>>

\* The body of the with-block, and the block's end: the finally clause of the
\* context manager calls return_connection.
LeaveWith(t) ==
    LET th == callers[t]
        top == th.held[Len(th.held)]
    IN  /\ th.pc \in WithBlocks
        /\ th.inside
        /\ \E outcome \in BodyOutcomes(th.pc), probe_ok \in BOOLEAN :
              IF StaysInside(th.pc, outcome)
              THEN /\ callers' = [callers EXCEPT ![t] =
                          [th EXCEPT !.pc = IF th.pc = "duplicate_check"
                                            THEN "mark_duplicate"
                                            ELSE AfterBlock(th.function, th.pc),
                                     !.inside = FALSE]]
                   /\ UNCHANGED <<risk_db_pool, knowledge_db_pool>>
              ELSE /\ callers' = [callers EXCEPT ![t] =
                          [th EXCEPT !.pc = IF outcome = "raise"
                                            THEN AfterRaise(th.function, th.pc)
                                            ELSE AfterBlock(th.function, th.pc),
                                     !.inside = FALSE,
                                     !.held = SubSeq(@, 1, Len(@) - 1)]]
                   /\ IF Finally(outcome)
                      THEN SetPool(top.pool, return_connection(Pool(top.pool), top.conn, probe_ok))
                      ELSE UNCHANGED <<risk_db_pool, knowledge_db_pool>>
        /\ UNCHANGED <<opt, pipeline, stream, call>>

\* return inside the with-block of the duplicate check: the block ends.
ReturnInsideWith(t) ==
    LET th == callers[t]
        top == th.held[Len(th.held)]
    IN  /\ th.pc = "duplicate_return"
        /\ \E probe_ok \in BOOLEAN :
              /\ callers' = [callers EXCEPT ![t] =
                     [th EXCEPT !.pc = "returned", !.held = SubSeq(@, 1, Len(@) - 1)]]
              /\ IF Finally("ok")
                 THEN SetPool(top.pool, return_connection(Pool(top.pool), top.conn, probe_ok))
                 ELSE UNCHANGED <<risk_db_pool, knowledge_db_pool>>
        /\ UNCHANGED <<opt, pipeline, stream, call>>

\* llm_call returns or raises; the evaluator's verdict ends the loop, starts
\* the next iteration or (on the last one) makes optimize_risk_analysis
\* raise; classify_news_theme swallows what its call raises, and the
\* sentiment of the analysis decides whether the article is stored.
LlmCall(t) ==
    LET th == callers[t]
    IN  /\ th.pc \in LlmCalls
        /\ \E next \in CASE th.pc = "llm_generator" -> {"llm_evaluator", "raised"}
                         [] th.pc = "llm_evaluator" ->
                               {"llm_theme", "raised"}
                                 \cup (IF th.iteration < FrameIterations THEN {"context"} ELSE {})
                         [] th.pc = "llm_theme" -> {"mark_skipped", "duplicate_check"} :
              callers' = [callers EXCEPT ![t] =
                  [th EXCEPT !.pc = next,
                             !.iteration = IF next = "context" THEN @ + 1 ELSE @]]
        /\ UNCHANGED <<opt, pipeline, stream, risk_db_pool, knowledge_db_pool, call>>

\* The function has returned or raised: the thread is free.
TaskOver(t) ==
    /\ callers[t].pc \in {"returned", "raised"}
    /\ callers' = [callers EXCEPT ![t] = [NoTask EXCEPT !.held = callers[t].held]]
    /\ UNCHANGED <<opt, pipeline, stream, risk_db_pool, knowledge_db_pool, call>>

InitTask ==
    /\ opt = OptStart(0)
    /\ PipelineInit({1}, {}, TRUE)
    /\ StreamInit
    /\ risk_db_pool = NewPool
    /\ knowledge_db_pool = NewPool
    /\ callers = [t \in TaskThreads |-> NoTask]
    /\ call = NoFunction

NextTask ==
    \/ \E t \in DOMAIN callers : TaskStart(t)
    \/ \E t \in DOMAIN callers : EnterWith(t)
    \/ \E t \in DOMAIN callers : LeaveWith(t)
    \/ \E t \in DOMAIN callers : ReturnInsideWith(t)
    \/ \E t \in DOMAIN callers : LlmCall(t)
    \/ \E t \in DOMAIN callers : TaskOver(t)

SpecTask == InitTask /\ [][NextTask]_vars

\* ------------------------------------------------------------------------
\* Properties of the Evaluator-Optimizer loop (SpecOpt, FairOpt)
\* ------------------------------------------------------------------------

OptTerminated == opt.state \in {"DONE", "FAILED"}

\* The errors of the loop that come from a call that raised.
CallErrors == {"llm_call", "generator_format", "parse_json", "validation", "evaluator_format"}

OptCallsBounded ==
    opt.max_iterations >= 1 =>
        /\ opt.gen_calls <= opt.max_iterations
        /\ opt.eval_calls <= opt.max_iterations

\* C9: for every max_iterations N >= 1 and every sequence of replies, the
\* generator and the evaluator are each invoked at most N times, and the call
\* terminates: it returns (DONE) or raises (FAILED).
C9_LoopTerminatesWithinN == [](OptCallsBounded) /\ <>(OptTerminated)

\* C9 witness: a call with N >= 2 that used all N rounds and has terminated.
C9_Witness ==
    /\ OptTerminated
    /\ opt.max_iterations >= 2
    /\ opt.gen_calls = opt.max_iterations
    /\ opt.eval_calls = opt.max_iterations

\* Every verdict so far was FAIL.
AllFail(o) == \A i \in 1..Len(o.iteration_history) : o.iteration_history[i].evaluation = "FAIL"

\* C10: with an evaluator that answers FAIL on every iteration (and no call
\* that raises), a call with max_iterations = N raises after exactly N
\* generate/evaluate rounds; the raise for a FAIL happens on iteration N only,
\* so an earlier FAIL loops back to generation.
C10_AlwaysFailRaisesAfterN ==
    /\ (opt.max_iterations >= 1 /\ OptTerminated /\ AllFail(opt) /\ opt.error \notin CallErrors) =>
          /\ opt.state = "FAILED"
          /\ opt.error = "final_fail"
          /\ Len(opt.iteration_history) = opt.max_iterations
          /\ opt.gen_calls = opt.max_iterations
          /\ opt.eval_calls = opt.max_iterations
    /\ opt.error = "final_fail" =>
          /\ opt.iteration = opt.max_iterations
          /\ Len(opt.iteration_history) = opt.max_iterations
    /\ \A i \in 1..Len(opt.iteration_history) :
          (opt.iteration_history[i].evaluation = "FAIL" /\ i < opt.max_iterations) =>
              (opt.gen_calls > i \/ (opt.state = "GENERATE" /\ opt.iteration = i + 1))

\* C10 witness: N >= 2, every verdict was FAIL, and the call has raised.
C10_Witness ==
    /\ opt.max_iterations >= 2
    /\ opt.state = "FAILED"
    /\ opt.error = "final_fail"
    /\ AllFail(opt)
    /\ Len(opt.iteration_history) = opt.max_iterations

\* Every verdict so far was NEEDS_IMPROVEMENT.
AllNeedsImprovement(o) ==
    \A i \in 1..Len(o.iteration_history) :
        o.iteration_history[i].evaluation = "NEEDS_IMPROVEMENT"

\* C11: with an evaluator that answers NEEDS_IMPROVEMENT on every iteration
\* (and no call that raises), a call with max_iterations = N returns, after
\* exactly N rounds, the analysis generated in iteration N, and the
\* _optimization_meta says final_evaluation = NEEDS_IMPROVEMENT and
\* iterations_used = N.
C11_NeedsImprovementAcceptedOnFinal ==
    (opt.max_iterations >= 1 /\ OptTerminated /\ AllNeedsImprovement(opt)
        /\ opt.error \notin CallErrors) =>
            /\ opt.state = "DONE"
            /\ Len(opt.iteration_history) = opt.max_iterations
            /\ opt.gen_calls = opt.max_iterations
            /\ opt.eval_calls = opt.max_iterations
            /\ ~OptimizerResult(opt).raised
            /\ OptimizerResult(opt).risk_analysis =
                  opt.iteration_history[opt.max_iterations].risk_analysis
            /\ OptimizerResult(opt).final_evaluation = "NEEDS_IMPROVEMENT"
            /\ OptimizerResult(opt).iterations_used = opt.max_iterations

\* C11 witness: N >= 2, every verdict was NEEDS_IMPROVEMENT, the call has
\* returned, and the analysis of the last iteration is not that of the first.
C11_Witness ==
    /\ opt.max_iterations >= 2
    /\ opt.state = "DONE"
    /\ AllNeedsImprovement(opt)
    /\ Len(opt.iteration_history) = opt.max_iterations
    /\ opt.iteration_history[1].risk_analysis # opt.risk_analysis

\* The iterations whose verdict was PASS.
PassedAt(o) ==
    {i \in 1..Len(o.iteration_history) : o.iteration_history[i].evaluation = "PASS"}

\* C12: the call returns at the first iteration whose verdict is PASS: that
\* iteration is the last one recorded, the call is DONE with the analysis
\* generated in it, and the generator and the evaluator have been called
\* once for each iteration up to it and never after.
C12_ReturnsAtFirstPass ==
    \A i \in PassedAt(opt) :
        /\ i = Len(opt.iteration_history)
        /\ opt.state = "DONE"
        /\ opt.risk_analysis = opt.iteration_history[i].risk_analysis
        /\ OptimizerResult(opt).risk_analysis = opt.iteration_history[i].risk_analysis
        /\ opt.gen_calls = i
        /\ opt.eval_calls = i

\* C12 witness: a PASS in the second of at least three iterations.
C12_Witness ==
    /\ opt.max_iterations >= 3
    /\ PassedAt(opt) = {2}
    /\ opt.state = "DONE"

\* C13: the feedback context handed to the generator at iteration k holds the
\* evaluator's feedback of every iteration 1..k-1, in iteration order, and
\* nothing else; at iteration 1 it is empty.
C13_FeedbackCarriedForward ==
    opt.gen_calls >= 1 =>
        /\ Len(opt.feedback_context) = opt.gen_calls - 1
        /\ \A i \in 1..Len(opt.feedback_context) :
              /\ opt.feedback_context[i].attempt = i
              /\ opt.feedback_context[i].feedback = opt.iteration_history[i].feedback

\* C13 witness: the generator of iteration 3 was handed the two earlier
\* feedbacks, which differ.
C13_Witness ==
    /\ opt.gen_calls = 3
    /\ Len(opt.feedback_context) = 2
    /\ opt.feedback_context[1].feedback # opt.feedback_context[2].feedback

\* ------------------------------------------------------------------------
\* Properties of process_news_article and the queue (Spec, SpecWorkers)
\* ------------------------------------------------------------------------

\* The rows of news_articles with the key of RawArticle a.
RecordsOf(a) == {i \in 1..Len(news_articles) : news_articles[i].key = KeyOf(a)}

\* The workers that run a task.
Running == {w \in DOMAIN workers : workers[w].pc # "idle"}

\* C1: under any interleaving of the workers' runs, news_articles never holds
\* more than one record with the same (headline, source_name, published_date).
C1_AtMostOneRecordPerKey ==
    \A i, j \in 1..Len(news_articles) :
        news_articles[i].key = news_articles[j].key => i = j

C3_MarkedOnlyAfterAllSucceeded ==
    \A w \in Running :
        (workers[w].result = "success" /\ workers[w].marked) =>
            (workers[w].inserted /\ workers[w].calc_ok /\ workers[w].emit_ok)

\* C4: once the insert has committed, no later failure (daily recompute,
\* news_update event, mark-processed update) raises out of the handler or
\* removes the record: the run goes on and what it returns is the success
\* result, so the queue has nothing to retry.
C4_PostInsertFailuresSwallowed ==
    \A w \in Running :
        LET wk == workers[w]
        IN  wk.inserted =>
                /\ wk.pc \in {"calc_read", "calc_write", "emit", "mark_final", "returned"}
                /\ wk.risk_db_id \in RecordsOf(wk.task.news_id)
                /\ wk.pc = "returned" => wk.result = "success"
                /\ wk.error \in {"none", "calc", "emit", "mark_final"}

\* C4 witness: the record is stored, the recompute, the event and the mark
\* all failed, and the handler returned the success result.
C4_Witness ==
    \E w \in Running :
        /\ workers[w].pc = "returned"
        /\ workers[w].result = "success"
        /\ workers[w].inserted
        /\ ~workers[w].calc_ok
        /\ ~workers[w].emit_ok
        /\ ~workers[w].marked
        /\ workers[w].risk_db_id \in RecordsOf(workers[w].task.news_id)

\* The errors of the analysis that come from the generator only, and from the
\* evaluator only (llm_call comes from either).
GeneratorErrors == {"generator_format", "parse_json", "validation"}

EvaluatorErrors == {"evaluator_format"}

\* The errors C5 is about.
AnalysisOrInsertErrors == GeneratorErrors \cup EvaluatorErrors \cup {"llm_call", "insert"}

PastGate == {"duplicate_check", "mark_duplicate", "insert", "calc_read", "calc_write",
             "emit", "mark_final"}

Waiting == {queue[i] : i \in 1..Len(queue)} \cup {schedule[i] : i \in 1..Len(schedule)}

RunningTasks == {workers[w].task : w \in Running}

\* What the queue does with the task of worker w when its handler has raised.
RetriedOrDead(w) ==
    LET task == workers[w].task
    IN  (workers[w].pc = "raised" /\ workers'[w].pc = "idle") =>
            IF task.attempts <= MAX_RETRIES
            THEN /\ schedule' = Append(schedule, [task EXCEPT !.retries = @ - 1])
                 /\ failed' = failed
            ELSE /\ failed' = failed \cup {task}
                 /\ schedule' = schedule
                 /\ queue' = queue

\* The run counts of the tasks: none above MAX_RETRIES + 1, a waiting task
\* below it, a scheduled task has run, a dead task has used all its runs, and
\* a run that raised has not set the processed flag.
C7_Bounded ==
    /\ \A t \in Waiting \cup RunningTasks \cup failed : t.attempts <= MAX_RETRIES + 1
    /\ \A t \in Waiting : t.attempts <= MAX_RETRIES
    /\ \A i \in 1..Len(schedule) : schedule[i].attempts >= 1
    /\ \A t \in failed : t.attempts = MAX_RETRIES + 1
    /\ \A w \in Running : workers[w].pc = "raised" => ~workers[w].marked

\* C7: a task whose handler raised waits for its retry delay and runs again
\* while it has run at most MAX_RETRIES times; no task runs more than
\* MAX_RETRIES + 1 times; a task that has is dead, waits nowhere, and none of
\* its runs has set the processed flag.
C7_RetriesAtMostMaxRetriesPlusOne ==
    [](C7_Bounded) /\ [][\A w \in DOMAIN workers : RetriedOrDead(w)]_vars

\* C7 witness: a task is dead after MAX_RETRIES + 1 runs, nothing waits or
\* runs, and its article is unprocessed.
C7_Witness ==
    \E t \in failed :
        /\ t.attempts = MAX_RETRIES + 1
        /\ raw_news_data[t.news_id] = 0
        /\ Waiting = {}
        /\ Running = {}

\* ------------------------------------------------------------------------
\* Properties of the periodic scan (FairScan)
\* ------------------------------------------------------------------------

\* RawArticle a is in the hands of the handler.
Handed(a) == \E w \in Running : workers[w].task.news_id = a

\* C8: with the scan and the worker fairly scheduled, every RawArticle that
\* is unprocessed (all of ScanArticles are, at the start) is eventually handed
\* to the handler.
C8_EveryUnprocessedArticleHandled == \A a \in ScanArticles : <>(Handed(a))

\* ------------------------------------------------------------------------
\* Properties of the event log
\* ------------------------------------------------------------------------

\* The ids and the priorities of a sequence of rows or of returned entries.
IdsOf(events) == [k \in 1..Len(events) |-> events[k].event_id]
PrioritiesOf(events) == [k \in 1..Len(events) |-> events[k].priority]

\* C16: get_events_since(last_id, limit) returns only events with an id above
\* last_id, at most limit of them, ordered by priority descending and then id
\* ascending; with ids [1,2,3] of priorities [10,90,10] it returns [2,1,3].
C16_EventsSinceFilteredCappedOrdered ==
    /\ events_since.called =>
          LET events == events_since.events
          IN  /\ \A k \in 1..Len(events) : events[k].event_id > events_since.last_event_id
              /\ Len(events) <= events_since.limit
              /\ \A j, k \in 1..Len(events) :
                    j < k => \/ events[j].priority > events[k].priority
                             \/ /\ events[j].priority = events[k].priority
                                /\ events[j].event_id < events[k].event_id
    /\ PrioritiesOf(sse_events) = <<10, 90, 10>> =>
          IdsOf(get_events_since(sse_events, 0, 3)) = <<2, 1, 3>>

C16_Witness ==
    /\ PrioritiesOf(sse_events) = <<10, 90, 10>>
    /\ events_since.called
    /\ events_since.last_event_id = 0
    /\ IdsOf(events_since.events) = <<2, 1, 3>>

\* The entries of the last call that come from rows of the kind given: TRUE
\* for the rows emit_event wrote, FALSE for the rows of the raw INSERTs.
ReturnedAsWritten(enveloped) ==
    events_since.called =>
        \A k \in 1..Len(events_since.events) :
            LET entry == events_since.events[k]
                row == sse_events[entry.event_id]
            IN  ("original_event_type" \in DOMAIN row.event_data) = enveloped =>
                    /\ entry.original_event_type = written[entry.event_id].event_type
                    /\ entry.event_data = written[entry.event_id].event_data

\* The rows of emit_event come back with the type and the payload its caller
\* passed.
EnvelopedReturnedAsWritten == ReturnedAsWritten(TRUE)

\* C17: for every event appended by any producer (emit_event, the news_update
\* insert of process_news_article, the risk_change insert of
\* calculate_daily_risk_score), get_events_since returns an entry whose
\* original_event_type and event_data equal the semantic type and the payload
\* the producer wrote.
C17_ProducerPayloadReturned == ReturnedAsWritten(TRUE) /\ ReturnedAsWritten(FALSE)

\* ------------------------------------------------------------------------
\* Properties of the dashboard stream
\* ------------------------------------------------------------------------

\* The ids the subscriber has been sent, and the ids of the log.
DeliveredTo(s) == {subscribers[s].delivered[k] : k \in 1..Len(subscribers[s].delivered)}
LoggedIds == {sse_events[i].event_id : i \in 1..Len(sse_events)}

\* The subscriber has been sent every event of the log.
CaughtUp(s) == LoggedIds \subseteq DeliveredTo(s)

\* C14: a subscriber that polls get_events_since with its cursor never skips
\* an event for good: every event with an id above its starting cursor is
\* delivered to it in the end, whatever the priorities and however large the
\* backlog is against the limit of a poll. (The log of the model stops
\* growing, so "every event is delivered in the end" is "from some point on
\* the subscriber has been sent every event of the log".)
C14_NoEventSkippedForGood == \A s \in Subscribers : <>[]CaughtUp(s)

\* C15: when a batch has been delivered the cursor is the highest event id
\* delivered so far, and so no event is delivered twice on one stream.
C15_CursorIsHighestDelivered ==
    \A s \in DOMAIN subscribers :
        LET sub == subscribers[s]
        IN  /\ sub.pc = "sleep" =>
                  \A k \in 1..Len(sub.delivered) : sub.delivered[k] <= sub.last_event_id
            /\ \A j, k \in 1..Len(sub.delivered) : j # k => sub.delivered[j] # sub.delivered[k]

\* Between two polls the cursor only grows (a batch holds ids above the cursor
\* of its poll): a row that a sleeping generator has left below its cursor is
\* never delivered to it.
SkippedStaysSkipped ==
    \A s \in Subscribers, id \in 1..MaxEvents :
        []((/\ subscribers[s].pc = "sleep"
            /\ id <= subscribers[s].last_event_id
            /\ id \notin DeliveredTo(s)) => [](id \notin DeliveredTo(s)))

\* The events some subscriber has marked processed.
ProcessedIds == {sse_events[i].event_id : i \in {j \in 1..Len(sse_events) : sse_events[j].processed = 1}}

\* C18: two subscribers with their own cursors each receive every event: an
\* event that one of them has marked processed is still delivered to the
\* other, whose cursor is below it.
C18_ProcessedStillDeliveredToOthers ==
    <>[](\A s \in Subscribers : ProcessedIds \subseteq DeliveredTo(s))

\* get_events_since does not look at the processed flag: it returns to a
\* cursor what it would return were no row marked.
ProcessedIsNoGate ==
    \A s \in DOMAIN subscribers :
        get_events_since(sse_events, subscribers[s].last_event_id, StreamLimit)
          = get_events_since([i \in 1..Len(sse_events) |-> [sse_events[i] EXCEPT !.processed = 0]],
                             subscribers[s].last_event_id, StreamLimit)

\* The initial database of FairBacklog is one SpecStream reaches.
BacklogReached == Backlog /\ \A s \in Subscribers : subscribers[s] = NewSubscriber

\* The semantic event type under which a logical stream is emitted.
UpdateEventType(update_type) ==
    CASE update_type = "dashboard_summary" -> "dashboard_summary_update"
      [] update_type = "risk_breakdown" -> "risk_breakdown_update"
      [] update_type = "news_feed" -> "news_feed_update"
      [] update_type = "alerts" -> "alerts_update"

\* How many rows of the log carry the semantic type given.
RowsOfType(log, event_type) ==
    Cardinality({i \in 1..Len(log) :
                    JsonGet(log[i].event_data, "original_event_type", "none") = event_type})

\* C19: offering the same read-model payload for the same logical stream
\* twice in a row (equal once timestamp, last_check and triggered_by_event
\* are removed) appends exactly one event row: the offer that changes the
\* stream's hash (should_emit_update is true) appends one row of the stream,
\* and an offer that leaves it (should_emit_update is false) appends none.
C19_SamePayloadAppendsOneRow ==
    [][\A update_type \in DOMAIN change_detection_cache :
          LET appended == RowsOfType(sse_events', UpdateEventType(update_type))
                            - RowsOfType(sse_events, UpdateEventType(update_type))
          IN  IF change_detection_cache'[update_type] # change_detection_cache[update_type]
              THEN appended = 1
              ELSE appended = 0]_vars

\* should_emit_update alone: after an offer, the same payload with other
\* volatile fields is not to be emitted.
RepeatedOfferSuppressed ==
    LET alert_data == AlertData(news_articles)
        first == should_emit_update(change_detection_cache, "alerts", Dict(alert_data))
        again == should_emit_update(first.cache, "alerts",
                                    Dict([alert_data EXCEPT !.last_check = "later"]))
    IN  /\ first.emit = (change_detection_cache["alerts"] # get_data_hash(Dict(alert_data)))
        /\ ~again.emit

\* The streams other than the dashboard summary append one row per changed
\* hash.
OtherStreamsAppendOneRow ==
    [][\A update_type \in DOMAIN change_detection_cache \ {"dashboard_summary"} :
          LET appended == RowsOfType(sse_events', UpdateEventType(update_type))
                            - RowsOfType(sse_events, UpdateEventType(update_type))
          IN  IF change_detection_cache'[update_type] # change_detection_cache[update_type]
              THEN appended = 1
              ELSE appended = 0]_vars

\* ------------------------------------------------------------------------
\* Properties of the daily aggregate
\* ------------------------------------------------------------------------

\* Every task has finished.
AllTasksFinished ==
    /\ \A w \in DOMAIN workers : workers[w].pc = "idle"
    /\ queue = <<>>
    /\ schedule = <<>>

\* calculate_daily_risk_score run now, from scratch, over the stored rows.
FromScratch == Aggregate(Len(news_articles))

\* C20: after any set of articles of the latest date has been persisted, in
\* any completion order and any interleaving of the workers' insert and
\* recompute steps, once all tasks have finished the stored daily aggregate
\* equals a from-scratch recompute over all records of that date (and so a
\* recompute without new records leaves the score unchanged).
C20_AggregateMatchesRecompute == AllTasksFinished => risk_calculations = FromScratch

\* A recompute that runs alone (no other worker between its read and its
\* write) stores the from-scratch value.
SequentialRecomputeExact ==
    [][\A w \in DOMAIN workers :
          (workers[w].pc = "calc_write" /\ workers'[w].pc = "emit"
             /\ workers[w].latest_news = Len(news_articles))
          => risk_calculations' = FromScratch]_vars

\* ------------------------------------------------------------------------
\* Properties of the connection pool (SpecPool)
\* ------------------------------------------------------------------------

\* The threads inside a with-block, and the idle connections.
Holding == {t \in DOMAIN callers : callers[t].pc = "holding"}
IdleConnections == {risk_db_pool.connections[k] : k \in 1..Len(risk_db_pool.connections)}

\* No connection is held by two callers, none is idle and in use, none is
\* twice in the idle list, and the connections in use are the ones held.
PoolExclusive ==
    /\ \A t, u \in Holding : t # u => callers[t].conn # callers[u].conn
    /\ IdleConnections \cap risk_db_pool.in_use = {}
    /\ Cardinality(IdleConnections) = Len(risk_db_pool.connections)
    /\ risk_db_pool.in_use = {callers[t].conn : t \in Holding}

\* C21: under any interleaving of get_connection and return_connection by
\* concurrent threads no connection is held by two callers at once: a
\* connection is in at most one of the idle list and the in-use set, it is at
\* most once in the idle list, and returning a connection that is not checked
\* out (a second return) changes nothing.
C21_NoConnectionSharedByTwoCallers ==
    /\ []PoolExclusive
    /\ [][\A t \in DOMAIN callers :
             (callers[t].pc = "out" /\ callers'[t].last = "second"
                /\ callers'[t] # callers[t])
             => risk_db_pool' = risk_db_pool]_vars

C21_Witness ==
    \E t, u \in DOMAIN callers :
        /\ callers[t].last = "second"
        /\ callers[u].pc = "holding"
        /\ callers[u].conn = callers[t].conn

\* C22: when max_connections connections are checked out and none is idle,
\* get_connection raises the pool-exhausted error at once (it creates no
\* connection) and leaves the idle list and the in-use set unchanged.
C22_ExhaustedPoolRaises ==
    [][\A t \in DOMAIN callers :
          (/\ Cardinality(risk_db_pool.in_use) = MAX_CONNECTIONS
           /\ risk_db_pool.connections = <<>>
           /\ callers[t].pc = "out"
           /\ callers'[t] # callers[t]
           /\ callers'[t].last # "second")
          => /\ callers'[t].pc = "out"
             /\ callers'[t].last = "exhausted"
             /\ risk_db_pool' = risk_db_pool]_vars

C22_Witness ==
    /\ Cardinality(risk_db_pool.in_use) = MAX_CONNECTIONS
    /\ risk_db_pool.connections = <<>>
    /\ \E t \in DOMAIN callers : callers[t].last = "exhausted"

\* C23: return_connection of a checked-out connection takes it out of the
\* in-use set and puts it in the idle list only if the SELECT 1 probe
\* succeeds; if the probe fails the connection is closed and is in neither,
\* and it is never handed out again.
C23_ReturnProbesBeforePooling ==
    /\ [][\A t \in DOMAIN callers :
             (callers[t].pc = "holding" /\ callers'[t].pc = "out")
             => LET conn == callers[t].conn
                    idle == {risk_db_pool'.connections[k] : k \in 1..Len(risk_db_pool'.connections)}
                IN  /\ conn \notin risk_db_pool'.in_use
                    /\ callers'[t].last \in {"ok", "failed"}
                    /\ callers'[t].last = "ok" => conn \in idle
                    /\ callers'[t].last = "failed" =>
                          conn \notin idle /\ conn \in risk_db_pool'.closed]_vars
    /\ [](\A conn \in risk_db_pool.closed :
             /\ conn \notin IdleConnections
             /\ conn \notin risk_db_pool.in_use
             /\ \A t \in Holding : callers[t].conn # conn)

C23_Witness ==
    \E t, u \in DOMAIN callers :
        /\ callers[t].last = "failed"
        /\ risk_db_pool.closed # {}
        /\ callers[u].pc = "holding"

\* ------------------------------------------------------------------------
\* Properties of validate_risk_analysis (SpecValidate)
\* ------------------------------------------------------------------------

Returned == call.function = "validate_risk_analysis" /\ call.state = "returned"

ReturnedPrimary == Value(call.result.primary_risk_category)[1]
ReturnedSecondaries == Value(call.result.secondary_risk_categories)

\* C24: every analysis returned by validate_risk_analysis has a
\* primary_risk_category in the closed set of 8 categories, and its
\* secondary_risk_categories contain only values of that set and never the
\* primary category.
C24_CategoriesValidAndDisjoint ==
    Returned =>
        /\ Len(Value(call.result.primary_risk_category)) = 1
        /\ IsValidCategory(ReturnedPrimary)
        /\ \A cat \in Members(ReturnedSecondaries) : IsValidCategory(cat)
        /\ ReturnedPrimary \notin Members(ReturnedSecondaries)

\* The part of C24 that the code ensures: the categories returned are valid.
ReturnedCategoriesValid ==
    Returned =>
        /\ Len(Value(call.result.primary_risk_category)) = 1
        /\ IsValidCategory(ReturnedPrimary)
        /\ \A cat \in Members(ReturnedSecondaries) : IsValidCategory(cat)

\* How often cat is in list.
Occurrences(list, cat) == Cardinality({k \in 1..Len(list) : list[k] = cat})

RejectedForCategory(analysis) ==
    \/ analysis.primary_risk_category = {}
    \/ analysis.severity_level \notin valid_severities
    \/ ~IsValidCategory(IF HasPipe(Value(analysis.primary_risk_category))
                        THEN Strip(Value(analysis.primary_risk_category)[1])
                        ELSE Value(analysis.primary_risk_category)[1])

RiskChangeRows == Cardinality({i \in 1..Len(sse_events) : sse_events[i].event_type = "risk_change"})
NewsUpdateRows == Cardinality({i \in 1..Len(sse_events) : sse_events[i].event_type = "news_update"})

\* C27: calculate_daily_risk_score appends a risk_change event only when the
\* recomputed aggregate differs from the stored one (a recalculation that
\* yields the same values appends none), and every inserted article appends
\* one news_update event.
C27_RiskChangeOnlyWhenAggregateDiffers ==
    /\ [][\A w \in DOMAIN workers :
             (workers[w].pc = "calc_write" /\ workers'[w].pc = "emit"
                /\ Aggregate(workers[w].latest_news) = risk_calculations)
             => RiskChangeRows' = RiskChangeRows]_vars
    /\ [][\A w \in DOMAIN workers :
             (workers[w].pc = "emit" /\ workers'[w].pc = "mark_final")
             => NewsUpdateRows' = NewsUpdateRows + 1]_vars

\* The part of C27 that the code ensures on a reliable database: a
\* recalculation that changes the aggregate appends one risk_change event,
\* and when all tasks have finished there is one news_update event for each
\* inserted article.
ChangedAggregateAndInsertsPublished ==
    /\ [][\A w \in DOMAIN workers :
             (workers[w].pc = "calc_write" /\ workers'[w].pc = "emit"
                /\ Aggregate(workers[w].latest_news) # risk_calculations)
             => RiskChangeRows' = RiskChangeRows + 1]_vars
    /\ [](AllTasksFinished => NewsUpdateRows = Len(news_articles))

\* ------------------------------------------------------------------------
\* Properties of the risk trend (SpecTrend)
\* ------------------------------------------------------------------------

TrendComputed == call.function = "risk_trend" /\ call.risk_trend # "none"

\* The thresholds in either order of precedence: Stable within 0.5 of the
\* stored score and when there is none, Rising or Falling beyond 0.5, and
\* beyond 1.0 either Volatile or the direction.
TrendByThresholds ==
    TrendComputed =>
        IF call.previous_day_score = {}
        THEN call.risk_trend = "Stable"
        ELSE LET difference == call.overall_risk_score - Value(call.previous_day_score)
             IN  /\ (-5 <= difference /\ difference <= 5) => call.risk_trend = "Stable"
                 /\ (5 < difference /\ difference <= 10) => call.risk_trend = "Rising"
                 /\ (-10 <= difference /\ difference < -5) => call.risk_trend = "Falling"
                 /\ difference > 10 => call.risk_trend \in {"Rising", "Volatile"}
                 /\ difference < -10 => call.risk_trend \in {"Falling", "Volatile"}

\* C28: the trend of a score s against the stored score p of the day before
\* is given by the thresholds +0.5 (Rising), -0.5 (Falling) and absolute
\* difference above 1.0 (Volatile), else Stable, and Stable when the day
\* before has no row; each of the four trends is produced for some pair
\* (s, p): once every pair of the range has been computed, all four have
\* been seen.
C28_TrendThresholdsAllFourProduced ==
    /\ TrendByThresholds
    /\ (TrendComputed /\ LastPair) =>
          call.produced = {"Rising", "Falling", "Volatile", "Stable"}

\* No pair of scores gives Volatile.
NeverVolatile == call.function = "risk_trend" => "Volatile" \notin call.produced

\* ------------------------------------------------------------------------
\* Properties of classify_news_theme (SpecTheme)
\* ------------------------------------------------------------------------

\* The LLM path failed: no reply, no JSON object in it, or a value in the
\* object that the code cannot use.
LlmPathFailed(reply) ==
    \/ reply.kind # "object"
    \/ reply.primary_theme.type = "list"
    \/ /\ reply.primary_theme.type = "string" => reply.primary_theme.value \in ThemeIds
       /\ reply.confidence.type = "string"

\* C29: classify_news_theme never raises and always returns a primary_theme
\* of the fixed theme set: on any failure of the LLM path it uses keyword
\* matching, then the risk-category mapping, then the catch-all
\* other_financial_risks, and an unrecognized theme id returned by the LLM is
\* replaced by the catch-all with reduced confidence.
C29_ThemeClassificationNeverRaises ==
    (call.function = "classify_news_theme" /\ call.state # "called") =>
        /\ call.state = "returned"
        /\ call.result.primary_theme \in ThemeIds
        /\ LlmPathFailed(call.reply) =>
              LET keywords == \E t \in DOMAIN call.matches : call.matches[t] > 0
                  risks == IF call.risk_categories = {} THEN {} ELSE Members(Value(call.risk_categories))
              IN  /\ keywords =>
                         /\ call.result.method = "keyword_fallback"
                         /\ call.matches[call.result.primary_theme] > 0
                         /\ \A t \in DOMAIN call.matches :
                                call.matches[t] <= call.matches[call.result.primary_theme]
                  /\ (~keywords /\ risks \cap DOMAIN risk_to_theme_map # {}) =>
                         /\ call.result.method = "risk_category_fallback"
                         /\ \E r \in risks \cap DOMAIN risk_to_theme_map :
                                call.result.primary_theme = risk_to_theme_map[r]
                  /\ (~keywords /\ risks \cap DOMAIN risk_to_theme_map = {}) =>
                         /\ call.result.method = "default_fallback"
                         /\ call.result.primary_theme = "other_financial_risks"
        /\ (/\ call.reply.kind = "object"
            /\ call.reply.primary_theme.type = "string"
            /\ call.reply.primary_theme.value \notin ThemeIds) =>
              /\ call.result.primary_theme = "other_financial_risks"
              /\ call.result.method = "llm_classification"
              /\ call.result.confidence = 30

C29_Witness ==
    /\ call.function = "classify_news_theme"
    /\ call.state = "returned"
    /\ call.reply.kind = "error"
    /\ call.result.method = "risk_category_fallback"

\* ------------------------------------------------------------------------
\* Properties of the optimizer's database access (SpecFrame)
\* ------------------------------------------------------------------------

\* C30: optimize_risk_analysis, its scoring-context read included, leaves
\* news_articles, risk_calculations, sse_events and raw_news_data unchanged,
\* whether it returns or raises: no step of the call changes one of them.
C30_OptimizerLeavesTablesUnchanged ==
    [][(opt' # opt \/ call' # call \/ risk_db_pool' # risk_db_pool)
          => UNCHANGED <<news_articles, risk_calculations, sse_events, raw_news_data>>]_vars

C30_Witness ==
    /\ opt.state \in {"DONE", "FAILED"}
    /\ opt.gen_calls = FrameIterations
    /\ call.function = "get_recent_scoring_context"
    /\ news_articles # <<>>
    /\ risk_db_pool.connections # <<>>

\* ------------------------------------------------------------------------
\* Properties of cleanup_old_events (SpecCleanup)
\* ------------------------------------------------------------------------

\* C31: cleanup_old_events deletes only events that are both flagged
\* processed and older than the retention window: an unprocessed event, and a
\* processed event younger than the window, is never deleted. Every row that
\* a step takes out of the log was processed and created more than
\* RetentionDays before that step.
C31_CleanupDeletesOnlyProcessedAndOld ==
    [][\A i \in 1..Len(sse_events) :
          (\A j \in 1..Len(sse_events') : sse_events'[j].event_id # sse_events[i].event_id)
          => /\ sse_events[i].processed = 1
             /\ sse_events[i].created_at + RetentionDays < call.now]_vars

C31_Witness ==
    /\ call.function = "cleanup_old_events"
    /\ call.removed_count > 0
    /\ \E i \in 1..Len(sse_events) :
          sse_events[i].processed = 0 /\ sse_events[i].created_at + RetentionDays < call.now
    /\ \E i \in 1..Len(sse_events) :
          sse_events[i].processed = 1 /\ sse_events[i].created_at + RetentionDays >= call.now

\* ------------------------------------------------------------------------
\* Properties of should_process_news (SpecFilter)
\* ------------------------------------------------------------------------

\* C32: should_process_news returns SKIP (False) only when the LLM call
\* succeeds and its response is exactly SKIP after trimming and upper-casing;
\* an LLM error or any other response yields PROCESS (True), and the function
\* never raises.
C32_PreFilterFailsOpen ==
    (call.function = "should_process_news" /\ call.state # "called") =>
        /\ call.state = "returned"
        /\ call.value = FALSE <=>
              /\ call.news_data = "complete"
              /\ call.reply.kind = "text"
              /\ call.reply.content.text \in {"SKIP", "skip", "Skip", "sKiP"}

C32_Witness ==
    /\ call.function = "should_process_news"
    /\ call.state = "returned"
    /\ call.reply.kind = "text"
    /\ call.reply.content = [pad |-> TRUE, text |-> "skip"]
    /\ call.news_data = "complete"
    /\ call.value = FALSE

\* ------------------------------------------------------------------------
\* Properties of one tick of the scan (SpecScan)
\* ------------------------------------------------------------------------

\* The tasks a step has put at the end of the queue.
Enqueued == SubSeq(queue', Len(queue) + 1, Len(queue'))

RiskScoreEvents ==
    {i \in 1..Len(sse_events) :
        JsonGet(sse_events[i].event_data, "original_event_type", sse_events[i].event_type)
            \in {"risk_update", "risk_score_update"}}

QuiescesWithoutRiskScoreEvent == (RiskScoreEvents = {}) => <>[](call.appended = 0)

\* A cascade has answered a risk score event with a risk score event.
ChainStep == call.appended > 0 /\ RiskScoreEvents # {} /\ subscribers["s1"].pc = "sleep"

\* ------------------------------------------------------------------------
\* Properties of the change-detection cache (SpecStream)
\* ------------------------------------------------------------------------

\* The data that was offered to should_emit_update for the event_data given
\* of a row of the stream.
OfferedData(update_type, event_data) ==
    CASE update_type = "news_feed" -> List(event_data.articles)
      [] update_type = "risk_breakdown" -> List(event_data.breakdown)
      [] OTHER -> Dict([k \in DOMAIN event_data \ {"action"} |-> event_data[k]])

\* The rows of the log that were emitted for the stream.
RowsOfStream(update_type) ==
    {i \in 1..Len(sse_events) :
        JsonGet(sse_events[i].event_data, "original_event_type", "none")
            = UpdateEventType(update_type)}

\* The hash of the last payload appended for the stream, None when there is
\* none.
LastAppendedHash(update_type) ==
    IF RowsOfStream(update_type) = {} THEN NoHash
    ELSE LET last == CHOOSE i \in RowsOfStream(update_type) :
                         \A j \in RowsOfStream(update_type) : j <= i
         IN  get_data_hash(OfferedData(update_type, sse_events[last].event_data.event_data))

\* C35: for each logical stream, the change-detection cache entry always
\* equals the content hash of the last payload actually appended as an event
\* for that stream (a payload whose emission failed is not recorded as
\* emitted).
C35_CacheIsHashOfLastAppended ==
    \A update_type \in DOMAIN change_detection_cache :
        change_detection_cache[update_type] = LastAppendedHash(update_type)

\* The same for the streams whose emit function takes the payload it is given.
CacheIsHashOfLastAppendedButSummary ==
    \A update_type \in DOMAIN change_detection_cache \ {"dashboard_summary"} :
        change_detection_cache[update_type] = LastAppendedHash(update_type)

\* The hash of a dashboard summary is stored and no row of the stream exists.
SummaryRecordedNotAppended ==
    /\ change_detection_cache["dashboard_summary"] # NoHash
    /\ RowsOfStream("dashboard_summary") = {}

\* ------------------------------------------------------------------------
\* Properties of the retry ceiling under the periodic scan (FairTicks)
\* ------------------------------------------------------------------------

\* A task of RawArticle a has used its MAX_RETRIES + 1 runs and is dead.
BudgetExhausted(a) == \E t \in failed : t.news_id = a /\ t.attempts = MAX_RETRIES + 1

\* C36: the retry ceiling bounds the work done for one article: after one
\* task's budget of MAX_RETRIES + 1 attempts is exhausted, no further
\* pipeline run is started for that article without manual intervention (so
\* the handler executions for an article whose processing always raises are
\* finitely many): from some point on, an article with a dead task is not in
\* the hands of the handler.
C36_NoRunAfterBudgetExhausted ==
    \A a \in ScanArticles : <>[](BudgetExhausted(a) => ~Handed(a))

\* The same from the first exhausted budget on: never a run again.
NeverRunAgain ==
    \A a \in ScanArticles : [](BudgetExhausted(a) => [](~Handed(a)))

\* An article that stays unprocessed is in the hands of the handler finitely
\* often.
FinitelyManyRuns ==
    \A a \in ScanArticles : <>[](raw_news_data[a] = 0) => <>[](~Handed(a))

\* The runs of one task alone are bounded by the ceiling.
TaskWithinBudget ==
    \A t \in Waiting \cup RunningTasks \cup failed : t.attempts <= MAX_RETRIES + 1

\* An article with a dead task is in the hands of the handler again.
RunAfterBudgetExhausted == \E a \in ScanArticles : BudgetExhausted(a) /\ Handed(a)
\* ------------------------------------------------------------------------
\* Properties of the size of a DatabaseConnectionPool (SpecPool)
\* ------------------------------------------------------------------------

\* The live connections of the pool: idle plus in use.
LiveConnections == Len(risk_db_pool.connections) + Cardinality(risk_db_pool.in_use)

\* C38: in every reachable state of a DatabaseConnectionPool the number of
\* live connections, idle plus in-use, is at most max_connections, and so the
\* in-use count alone never exceeds max_connections.
C38_LiveConnectionsAtMostMax ==
    /\ LiveConnections <= MAX_CONNECTIONS
    /\ Cardinality(risk_db_pool.in_use) <= MAX_CONNECTIONS
    /\ IdleConnections \cap risk_db_pool.in_use = {}

\* The pool is full, partly idle, and has replaced a connection it closed.
C38_Witness ==
    /\ LiveConnections = MAX_CONNECTIONS
    /\ risk_db_pool.connections # <<>>
    /\ risk_db_pool.in_use # {}
    /\ risk_db_pool.closed # {}

\* ------------------------------------------------------------------------
\* Properties of the connections a task holds (SpecTask)
\* ------------------------------------------------------------------------

\* The connections of the pool named that thread t holds.
HeldBy(t, name) ==
    {callers[t].held[k].conn :
        k \in {j \in 1..Len(callers[t].held) : callers[t].held[j].pool = name}}

\* C37: no pooled database connection is checked out by a task while it
\* waits on an LLM call (generator, evaluator or theme classifier): every
\* connection acquired for the scoring-context read or for a write has been
\* returned when the next LLM call starts.
C37_NoConnectionHeldAcrossLlmCall ==
    \A t \in DOMAIN callers :
        callers[t].pc \in LlmCalls =>
            /\ callers[t].held = <<>>
            /\ risk_db_pool.in_use = UNION {HeldBy(u, "risk") : u \in DOMAIN callers \ {t}}
            /\ knowledge_db_pool.in_use
                 = UNION {HeldBy(u, "knowledge") : u \in DOMAIN callers \ {t}}

\* A task that has read the scoring context through a connection it made,
\* in its second iteration, waits on the generator with the connection idle
\* in the pool.
C37_Witness ==
    \E t \in DOMAIN callers :
        /\ callers[t].pc = "llm_generator"
        /\ callers[t].iteration = FrameIterations
        /\ risk_db_pool.connections # <<>>
        /\ risk_db_pool.in_use = {}

\* C39: after any execution of process_news_article or
\* calculate_daily_risk_score, whether it returns or raises at any step,
\* every connection it acquired has been returned: the connections in use are
\* those of the with-blocks the running tasks are in, and when no task is
\* running both pools' in-use sets are empty.
C39_EveryConnectionReturned ==
    /\ risk_db_pool.in_use = UNION {HeldBy(t, "risk") : t \in DOMAIN callers}
    /\ knowledge_db_pool.in_use = UNION {HeldBy(t, "knowledge") : t \in DOMAIN callers}
    /\ \A t \in DOMAIN callers :
          callers[t].pc \in {"idle", "returned", "raised"} => callers[t].held = <<>>
    /\ (\A t \in DOMAIN callers : callers[t].pc = "idle")
          => risk_db_pool.in_use = {} /\ knowledge_db_pool.in_use = {}

\* Tasks have failed in both databases (each pool has closed a connection
\* and made another), no task is running and nothing is in use.
C39_Witness ==
    /\ \A t \in DOMAIN callers : callers[t].pc = "idle"
    /\ risk_db_pool.created = MaxCreated
    /\ knowledge_db_pool.created > 1
    /\ risk_db_pool.in_use = {}
    /\ knowledge_db_pool.in_use = {}
\* ------------------------------------------------------------------------
\* Properties of what optimize_risk_analysis returns (SpecOpt)
\* ------------------------------------------------------------------------

\* The verdict of the last iteration evaluated.
LastVerdict == opt.iteration_history[Len(opt.iteration_history)]

\* C40: optimize_risk_analysis returns an analysis only if the verdict of its
\* last iteration was PASS, or NEEDS_IMPROVEMENT on iteration N; it never
\* returns an analysis whose last verdict was FAIL or a value outside
\* {PASS, NEEDS_IMPROVEMENT, FAIL}, and in those cases it raises once the N
\* iterations are used up.
C40_ReturnsOnlyOnAcceptedVerdict ==
    /\ opt.state = "DONE" =>
          /\ opt.iteration_history # <<>>
          /\ \/ LastVerdict.evaluation = "PASS"
             \/ /\ LastVerdict.evaluation = "NEEDS_IMPROVEMENT"
                /\ LastVerdict.iteration = opt.max_iterations
          /\ opt.risk_analysis = LastVerdict.risk_analysis
    /\ (/\ opt.iteration_history # <<>>
        /\ LastVerdict.evaluation \notin {"PASS", "NEEDS_IMPROVEMENT"}
        /\ LastVerdict.iteration = opt.max_iterations) =>
          /\ opt.state = "FAILED"
          /\ opt.error = IF LastVerdict.evaluation = "FAIL" THEN "final_fail" ELSE "incomplete"

\* The evaluator has answered with a verdict outside the three on the last of
\* several iterations, after a NEEDS_IMPROVEMENT, and the call has raised.
C40_Witness ==
    /\ opt.max_iterations >= 2
    /\ opt.state = "FAILED"
    /\ opt.error = "incomplete"
    /\ Len(opt.iteration_history) = opt.max_iterations
    /\ LastVerdict.evaluation = "UNCLEAR"
    /\ opt.iteration_history[1].evaluation = "NEEDS_IMPROVEMENT"

====
